---- MODULE Spec2Model ----
(***************************************************************************)
(* QuantJurnal-Pro: the analytics engine (src/utils/analytics.ts), the     *)
(* client state that feeds it (the App component's trades and userProfile, *)
(* the Dashboard and Analytics views, the trade preview), and the server's *)
(* /api/trades routes behind the protect middleware.                       *)
(*                                                                         *)
(* Numbers.  Currency amounts are integers counting thousandths of the     *)
(* currency unit (UNIT = 1.000), so that amounts below one cent exist and  *)
(* toFixed(2) has something to round.  Quotients (percentages, ratios)     *)
(* are exact fractions [n, d] in lowest terms with d >= 0; d = 0 encodes   *)
(* the IEEE values a division by zero produces: 1/0 = Infinity,            *)
(* -1/0 = -Infinity, 0/0 = NaN.  Binary floating-point rounding error is   *)
(* not modelled: arithmetic is exact.                                      *)
(***************************************************************************)
EXTENDS Integers, Sequences, FiniteSets, TLC

VARIABLES
    trades,               \* App: const [trades, setTrades] = useState<Trade[]>([])
    userProfile,          \* App: const [userProfile, setUserProfile]
    metrics,              \* Dashboard: useMemo(calculateMetrics), <<>> = not rendered
    equityData,           \* Dashboard: useMemo(generateEquityCurve), <<>> = not rendered
    analyticsMetrics,     \* Analytics: useMemo(calculateMetrics)
    analyticsEquityData,  \* Analytics: useMemo(generateEquityCurve)
    tradeToPreview,       \* TradePreviewModal: prop trade, <<>> = modal closed
    previewProfile,       \* TradePreviewModal: prop userProfile, <<>> = not supplied
    violations,           \* TradePreviewModal: getTradeViolations(...), <<>> = modal closed
    recentWinRate,        \* Dashboard: the figure 'Win Rate (Last 20)', <<>> = not rendered
    authState,            \* App: const [authState, setAuthState]
    qj_token,             \* localStorage 'qj_token': <<>> = no item
    loadState,            \* App: "mount" before the mount effect, "restoring" while
                          \* loadUserData runs (the loading screen), "ready" after
    submissions,          \* AuthPage: the handleSubmit calls that have not returned
    importing,            \* App: the position of handleImportTrades, <<>> = not running
    call,                 \* App: the argument of the handler called last, <<>> = none
    alert,                \* window.alert: what the alert shown last reports, <<>> = none
    users,                \* server: the ids of the documents of the User collection
    store,                \* server: the documents of the Trade collection
    nextId,               \* server: the number of the next ObjectId MongoDB generates
    request,              \* server: the request handled last, <<>> = none yet
    response              \* server: the response sent to it

clientVars == <<trades, userProfile, metrics, equityData, analyticsMetrics,
                analyticsEquityData, tradeToPreview, previewProfile, violations,
                recentWinRate>>

appVars == <<authState, qj_token, loadState, submissions, importing, call, alert>>

serverVars == <<users, store, nextId, request, response>>

vars == <<clientVars, appVars, serverVars>>

--------------------------------------------------------------------------
(* Bounds of the model *)

MaxTrades == 3

--------------------------------------------------------------------------
(* Numbers *)

UNIT == 1000

Abs(x) == IF x < 0 THEN -x ELSE x

Sign(x) == IF x > 0 THEN 1 ELSE IF x < 0 THEN -1 ELSE 0

RECURSIVE GCD(_, _)
GCD(a, b) == IF b = 0 THEN a ELSE GCD(b, a % b)

\* The number n / d as JavaScript's division yields it, in exact arithmetic.
Frac(n, d) ==
    IF d = 0 THEN [n |-> Sign(n), d |-> 0]
    ELSE LET g == GCD(Abs(n), Abs(d))
         IN  [n |-> (Sign(d) * n) \div g, d |-> Abs(d) \div g]

Num(i) == [n |-> i, d |-> 1]

IsNaN(a) == a.n = 0 /\ a.d = 0

IsFinite(a) == a.d # 0

FMul(a, b) == Frac(a.n * b.n, a.d * b.d)

FSub(a, b) == Frac(a.n * b.d - b.n * a.d, a.d * b.d)

\* a > b; every comparison with NaN is false.
FGt(a, b) ==
    IF IsNaN(a) \/ IsNaN(b) THEN FALSE
    ELSE IF a.d = 0 /\ b.d = 0 THEN a.n > b.n
    ELSE a.n * b.d > b.n * a.d

\* The integer nearest to n / d (d > 0), halves away from zero: the digits
\* Number.prototype.toFixed keeps.
RoundDiv(n, d) ==
    IF n >= 0 THEN (2 * n + d) \div (2 * d)
    ELSE -((2 * (-n) + d) \div (2 * d))

\* ToFixed2 cutting the digits off instead of rounding to the nearest.
ToFixed2Truncating(x) == (x \div (UNIT \div 100)) * (UNIT \div 100)

\* Number(x.toFixed(2)) of a currency amount: the nearest whole cent.
ToFixed2(x) == RoundDiv(x, UNIT \div 100) * (UNIT \div 100)

\* Number(x.toFixed(2)) of a finite quotient.
FracToFixed2(a) == Frac(RoundDiv(a.n * 100, a.d), 100)

--------------------------------------------------------------------------
(* Trades *)

\* exitDate?: number -- the encoding of a missing exitDate.
UNDEF == -1

MS_PER_DAY == 86400000

Last(s) == s[Len(s)]

Front(s) == SubSeq(s, 1, Len(s) - 1)

\* a.exitDate || 0
ExitOrZero(t) == IF t.exitDate = UNDEF THEN 0 ELSE t.exitDate

\* ClosedOnly also dropping the closed trades that have no exitDate.
ClosedWithExitOnly(s) ==
    SelectSeq(s, LAMBDA t : t.status = "CLOSED" /\ t.exitDate # UNDEF)

\* trades.filter(t => t.status === TradeStatus.CLOSED)
ClosedOnly(s) == SelectSeq(s, LAMBDA t : t.status = "CLOSED")

\* InsertAsc leaving x where it was, after all the others.
InsertAtEnd(sorted, x) == Append(sorted, x)

\* Array.prototype.sort is stable: x goes after every element whose key is
\* not greater than its own.
RECURSIVE InsertAsc(_, _)
InsertAsc(sorted, x) ==
    IF sorted = <<>> THEN <<x>>
    ELSE IF ExitOrZero(Last(sorted)) - ExitOrZero(x) <= 0
         THEN Append(sorted, x)
         ELSE Append(InsertAsc(Front(sorted), x), Last(sorted))

\* SortByExitAsc without the sort.
Unsorted(s) == s

RECURSIVE SortByExitAsc(_)
SortByExitAsc(s) ==
    IF s = <<>> THEN <<>>
    ELSE InsertAsc(SortByExitAsc(Front(s)), Last(s))

\* ArgumentAfterFilterSort with the sort applied to the array itself.
ArgumentSortedInPlace(arr) == SortByExitAsc(arr)

\* The caller's array after arr.filter(...).sort(...): filter returns a new
\* array and sort reorders that one; no element is assigned to.
ArgumentAfterFilterSort(arr) == arr

--------------------------------------------------------------------------
(* calculateMetrics *)

WalkInit(initialBalance) ==
    [wins |-> 0, grossProfit |-> 0, grossLoss |-> 0,
     maxEquity |-> initialBalance, currentEquity |-> initialBalance,
     maxDD |-> 0, maxDDPercent |-> Num(0),
     largestWin |-> 0, largestLoss |-> 0, currentStreak |-> 0]

\* const ddPercent = (dd / maxEquity) * 100
DDPercent(dd, maxEquity) == FMul(Frac(dd, maxEquity), Num(100))

\* IsWin counting a trade that broke even as a win.
IsWinOrFlat(pnl) == pnl >= 0

\* if (pnl > 0) { a win } else { a loss }
IsWin(pnl) == pnl > 0

\* NextStreak counting on through a change of outcome.
NextStreakNoReset(currentStreak, pnl) ==
    IF IsWin(pnl) THEN currentStreak + 1 ELSE currentStreak - 1

\* win:  if (currentStreak >= 0) currentStreak++; else currentStreak = 1
\* loss: if (currentStreak <= 0) currentStreak--; else currentStreak = -1
NextStreak(currentStreak, pnl) ==
    IF IsWin(pnl)
    THEN (IF currentStreak >= 0 THEN currentStreak + 1 ELSE 1)
    ELSE (IF currentStreak <= 0 THEN currentStreak - 1 ELSE -1)

\* NextLargestLoss keeping the magnitude of the loss.
NextLargestLossMagnitude(largestLoss, pnl) ==
    IF Abs(pnl) > largestLoss THEN Abs(pnl) ELSE largestLoss

\* if (pnl < largestLoss) largestLoss = pnl
NextLargestLoss(largestLoss, pnl) == IF pnl < largestLoss THEN pnl ELSE largestLoss

\* NextMaxDD keeping the drawdown of the trade at hand.
LastDD(maxDD, dd) == dd

\* if (dd > maxDD) maxDD = dd
NextMaxDD(maxDD, dd) == IF dd > maxDD THEN dd ELSE maxDD

\* One pass of the forEach body.
WalkStep(a, trade) ==
    LET pnl == trade.netPnL
        currentEquity == a.currentEquity + pnl
        maxEquity == IF currentEquity > a.maxEquity THEN currentEquity ELSE a.maxEquity
        dd == maxEquity - currentEquity
        ddPercent == DDPercent(dd, maxEquity)
    IN  [wins |-> IF IsWin(pnl) THEN a.wins + 1 ELSE a.wins,
         grossProfit |-> IF IsWin(pnl) THEN a.grossProfit + pnl ELSE a.grossProfit,
         grossLoss |-> IF IsWin(pnl) THEN a.grossLoss ELSE a.grossLoss + Abs(pnl),
         maxEquity |-> maxEquity,
         currentEquity |-> currentEquity,
         maxDD |-> NextMaxDD(a.maxDD, dd),
         maxDDPercent |-> IF FGt(ddPercent, a.maxDDPercent) THEN ddPercent
                          ELSE a.maxDDPercent,
         largestWin |-> IF IsWin(pnl) /\ pnl > a.largestWin THEN pnl
                        ELSE a.largestWin,
         largestLoss |-> IF ~IsWin(pnl) THEN NextLargestLoss(a.largestLoss, pnl)
                         ELSE a.largestLoss,
         currentStreak |-> NextStreak(a.currentStreak, pnl)]

RECURSIVE Walk(_, _)
Walk(a, s) == IF s = <<>> THEN a ELSE Walk(WalkStep(a, Head(s)), Tail(s))

\* WinRate without the guard on totalTrades.
WinRateUnguarded(wins, totalTrades) == FMul(Frac(wins, totalTrades), Num(100))

WinRate(wins, totalTrades) ==
    IF totalTrades > 0 THEN FMul(Frac(wins, totalTrades), Num(100)) ELSE Num(0)

\* ProfitFactor without the sentinel for a lossless record.
ProfitFactorNoSentinel(grossProfit, grossLoss) ==
    IF grossLoss > 0 THEN Frac(grossProfit, grossLoss) ELSE Num(0)

ProfitFactor(grossProfit, grossLoss) ==
    IF grossLoss > 0 THEN Frac(grossProfit, grossLoss)
    ELSE IF grossProfit > 0 THEN Num(999) ELSE Num(0)

\* Expectancy weighting the average win with the share of the losses.
ExpectancySwapped(wins, losses, totalTrades, averageWin, averageLoss) ==
    LET winPct == Frac(wins, totalTrades)
        lossPct == Frac(losses, totalTrades)
    IN  IF totalTrades > 0
        THEN FSub(FMul(lossPct, averageWin), FMul(winPct, averageLoss))
        ELSE Num(0)

Expectancy(wins, losses, totalTrades, averageWin, averageLoss) ==
    LET winPct == Frac(wins, totalTrades)
        lossPct == Frac(losses, totalTrades)
    IN  IF totalTrades > 0
        THEN FSub(FMul(winPct, averageWin), FMul(lossPct, averageLoss))
        ELSE Num(0)

calculateMetrics(trs, initialBalance) ==
    LET closedTrades == SortByExitAsc(ClosedOnly(trs))
        a == Walk(WalkInit(initialBalance), closedTrades)
        totalTrades == Len(closedTrades)
        losses == totalTrades - a.wins
        averageWin == IF a.wins > 0 THEN Frac(a.grossProfit, a.wins) ELSE Num(0)
        averageLoss == IF losses > 0 THEN Frac(a.grossLoss, losses) ELSE Num(0)
    IN  [totalTrades |-> totalTrades,
         winRate |-> WinRate(a.wins, totalTrades),
         profitFactor |-> ProfitFactor(a.grossProfit, a.grossLoss),
         expectancy |-> Expectancy(a.wins, losses, totalTrades, averageWin, averageLoss),
         averageWin |-> averageWin,
         averageLoss |-> averageLoss,
         maxDrawdown |-> a.maxDD,
         maxDrawdownPercent |-> a.maxDDPercent,
         netProfit |-> a.currentEquity - initialBalance,
         largestWin |-> a.largestWin,
         largestLoss |-> a.largestLoss,
         currentStreak |-> a.currentStreak]

--------------------------------------------------------------------------
(* generateEquityCurve *)

\* new Date(ts).toLocaleDateString(): the calendar day of ts (UTC).
DateLabel(ts) == <<"Date", ts \div MS_PER_DAY>>

\* StartTimestamp reading the clock whatever the trades are.
StartTimestampNow(sortedTrades, now) == now

\* timestamp of the 'Start' point; now is what Date.now() returns.
StartTimestamp(sortedTrades, now) ==
    IF Len(sortedTrades) > 0 THEN sortedTrades[1].entryDate - MS_PER_DAY ELSE now

\* maxBalance > 0 ? ((maxBalance - currentBalance) / maxBalance) * 100 : 0
CurveDDPercent(maxBalance, currentBalance) ==
    IF maxBalance > 0
    THEN FMul(Frac(maxBalance - currentBalance, maxBalance), Num(100))
    ELSE Num(0)

RECURSIVE CurveWalk(_, _, _, _)
CurveWalk(curve, currentBalance, maxBalance, s) ==
    IF s = <<>> THEN curve
    ELSE LET trade == Head(s)
             cur == currentBalance + trade.netPnL
             mx == IF cur > maxBalance THEN cur ELSE maxBalance
             ddPercent == CurveDDPercent(mx, cur)
             point == [date |-> DateLabel(ExitOrZero(trade)),
                       timestamp |-> ExitOrZero(trade),
                       equity |-> ToFixed2(cur),
                       drawdown |-> FracToFixed2(ddPercent)]
         IN  CurveWalk(Append(curve, point), cur, mx, Tail(s))

generateEquityCurve(trs, initialBalance, now) ==
    LET sortedTrades == SortByExitAsc(ClosedOnly(trs))
        start == [date |-> <<"Start">>,
                  timestamp |-> StartTimestamp(sortedTrades, now),
                  equity |-> initialBalance,
                  drawdown |-> Num(0)]
    IN  CurveWalk(<<start>>, initialBalance, initialBalance, sortedTrades)

--------------------------------------------------------------------------
(* getTradeViolations *)

FALLBACK_MAX_RISK == 2000 * UNIT

MS_PER_MINUTE == 60000

MS_PER_HOUR == 60 * MS_PER_MINUTE

REVENGE_WINDOW_MS == 30 * 60 * 1000

\* MaxRiskAmount with the fallback limit whatever the profile says.
MaxRiskAmountFallbackOnly(profile) == Num(FALLBACK_MAX_RISK)

\* MaxRiskAmount taking the percentage from maxDailyLoss.
MaxRiskAmountFromDailyLoss(profile) ==
    IF profile # <<>>
    THEN Frac(profile[1].startBalance * profile[1].maxDailyLoss, 100)
    ELSE Num(FALLBACK_MAX_RISK)

\* const MAX_RISK_AMOUNT = profile ? (startBalance * maxRiskPerTrade / 100) : 2000
\* profile is <<>> (none supplied) or <<the profile>>.
MaxRiskAmount(profile) ==
    IF profile # <<>>
    THEN Frac(profile[1].startBalance * profile[1].maxRiskPerTrade, 100)
    ELSE Num(FALLBACK_MAX_RISK)

\* MAX_RISK_AMOUNT.toFixed(0): whole currency units.
ToFixed0(a) == RoundDiv(a.n, a.d * UNIT)

\* 1. Over-risking
OverRisking(trade, profile) ==
    IF FGt(Num(trade.riskAmount), MaxRiskAmount(profile))
    THEN << <<"Risk ($riskAmount) exceeds max limit ($MAX_RISK_AMOUNT)",
              trade.riskAmount, ToFixed0(MaxRiskAmount(profile))>> >>
    ELSE <<>>

\* ExceedsPlannedRisk counting a loss of exactly 1.5 times the risk.
ExceedsPlannedRiskInclusive(netPnL, riskAmount) == 2 * Abs(netPnL) >= 3 * riskAmount

\* Math.abs(trade.netPnL) > (trade.riskAmount * MAX_LOSS_MULTIPLIER), with
\* MAX_LOSS_MULTIPLIER = 1.5
ExceedsPlannedRisk(netPnL, riskAmount) == 2 * Abs(netPnL) > 3 * riskAmount

\* The second test of 1. Over-risking
ExcessLoss(trade) ==
    IF /\ trade.netPnL < 0
       /\ ExceedsPlannedRisk(trade.netPnL, trade.riskAmount)
       /\ trade.riskAmount > 0
    THEN << <<"Loss exceeded planned risk significantly (Slippage/Discipline)">> >>
    ELSE <<>>

\* new Date(trade.entryDate).getUTCHours()
UTCHours(ts) == (ts \div MS_PER_HOUR) % 24

LONDON_START == 7
LONDON_END == 17
NY_START == 12
NY_END == 22
ASIA_START == 22
ASIA_END == 9

\* IsAsiaTime asking for both tests at once.
IsAsiaTimeConjunction(entryHour) == entryHour >= ASIA_START /\ entryHour < ASIA_END

\* const isAsiaTime = (entryHour >= SESSIONS.ASIA.start) || (entryHour < SESSIONS.ASIA.end)
IsAsiaTime(entryHour) == entryHour >= ASIA_START \/ entryHour < ASIA_END

\* 2. Trading outside session
OutsideSession(trade) ==
    LET entryHour == UTCHours(trade.entryDate)
    IN  IF trade.session = "LONDON"
        THEN (IF entryHour < LONDON_START \/ entryHour >= LONDON_END
              THEN << <<"Trade executed outside London session">> >> ELSE <<>>)
        ELSE IF trade.session = "NY"
        THEN (IF entryHour < NY_START \/ entryHour >= NY_END
              THEN << <<"Trade executed outside NY session">> >> ELSE <<>>)
        ELSE IF trade.session = "ASIA"
        THEN (IF ~IsAsiaTime(entryHour)
              THEN << <<"Trade executed outside Asia session">> >> ELSE <<>>)
        ELSE <<>>

\* The stable sort by (b.exitDate || 0) - (a.exitDate || 0): latest exit first,
\* equal exits in the order of the array.
RECURSIVE InsertDesc(_, _)
InsertDesc(sorted, x) ==
    IF sorted = <<>> THEN <<x>>
    ELSE IF ExitOrZero(x) - ExitOrZero(Last(sorted)) <= 0
         THEN Append(sorted, x)
         ELSE Append(InsertDesc(Front(sorted), x), Last(sorted))

RECURSIVE SortByExitDesc(_)
SortByExitDesc(s) ==
    IF s = <<>> THEN <<>>
    ELSE InsertDesc(SortByExitDesc(Front(s)), Last(s))

\* t.exitDate as a condition: undefined and 0 are both falsy.
HasExitDate(t) == t.exitDate # UNDEF /\ t.exitDate # 0

\* PreviousTrades without the test t.id !== trade.id.
PreviousTradesWithSelf(trade, allTrades) ==
    SortByExitDesc(SelectSeq(allTrades,
        LAMBDA t : HasExitDate(t) /\ t.exitDate <= trade.entryDate))

\* allTrades.filter(t => t.id !== trade.id && t.exitDate && t.exitDate <= trade.entryDate)
\*          .sort((a, b) => (b.exitDate || 0) - (a.exitDate || 0))
PreviousTrades(trade, allTrades) ==
    SortByExitDesc(SelectSeq(allTrades,
        LAMBDA t : t.id # trade.id /\ HasExitDate(t) /\ t.exitDate <= trade.entryDate))

\* WithinRevengeWindow counting a gap of exactly the window as inside.
WithinRevengeWindowInclusive(entryDate, exitDate) ==
    (entryDate - exitDate) <= REVENGE_WINDOW_MS

\* (trade.entryDate - lastTrade.exitDate) < REVENGE_WINDOW_MS
WithinRevengeWindow(entryDate, exitDate) ==
    (entryDate - exitDate) < REVENGE_WINDOW_MS

\* 3. Revenge Trading
RevengeTrading(trade, allTrades) ==
    LET previousTrades == PreviousTrades(trade, allTrades)
    IN  IF Len(previousTrades) > 0
        THEN LET lastTrade == previousTrades[1]
             IN  IF /\ lastTrade.netPnL < 0
                    /\ HasExitDate(lastTrade)
                    /\ WithinRevengeWindow(trade.entryDate, lastTrade.exitDate)
                 THEN << <<"Potential revenge trading (entry <30m after loss)">> >>
                 ELSE <<>>
        ELSE <<>>

\* getTradeViolations running the session check before the two risk checks.
getTradeViolationsSessionFirst(trade, allTrades, profile) ==
    OutsideSession(trade) \o OverRisking(trade, profile) \o ExcessLoss(trade)
        \o RevengeTrading(trade, allTrades)

getTradeViolations(trade, allTrades, profile) ==
    OverRisking(trade, profile) \o ExcessLoss(trade) \o OutsideSession(trade)
        \o RevengeTrading(trade, allTrades)

--------------------------------------------------------------------------
(* The inputs of the metrics specification *)

\* Date.now() at the moments the views render.
Clock == {1700000000, 1700000060}

\* No exit date, and two instants on 3 January 1970.
ExitDates == {UNDEF, 2 * MS_PER_DAY + 1000, 2 * MS_PER_DAY + 2000}

PnLs == {-500, 254}

\* A negative, a zero and a positive balance; the last is not a whole cent.
Balances == {-500, 0, 1004}

MetricsTrade(status, exitDate, netPnL) ==
    [id |-> 0, status |-> status,
     entryDate |-> IF exitDate = UNDEF THEN 2 * MS_PER_DAY + 700 ELSE exitDate - 500,
     exitDate |-> exitDate,
     netPnL |-> netPnL, riskAmount |-> 100, session |-> "OVERLAP"]

\* Closed trades with every exit date and result, a closed trade that broke
\* even, and one open position.
MetricsTrades ==
    { MetricsTrade("CLOSED", x, p) : x \in ExitDates, p \in PnLs }
    \cup { MetricsTrade("CLOSED", 2 * MS_PER_DAY + 1000, 0), MetricsTrade("OPEN", UNDEF, 254) }

DEFAULT_PROFILE == [startBalance |-> 100000 * UNIT, maxRiskPerTrade |-> 2,
                    maxDailyLoss |-> 5]

--------------------------------------------------------------------------
(* The inputs of the violations specification *)

MaxPrevious == 2

\* 10:00 UTC on 2 January 1970, the entry time of the previewed trade.
EntryTime == MS_PER_DAY + 10 * MS_PER_HOUR

ViolationBalances == {5000 * UNIT, 10000 * UNIT}

HistoryTrade(exitDate, netPnL) ==
    [id |-> 0, status |-> "CLOSED",
     entryDate |-> IF exitDate \in {UNDEF, 0} THEN EntryTime
                   ELSE exitDate - MS_PER_HOUR,
     exitDate |-> exitDate, netPnL |-> netPnL,
     riskAmount |-> 100 * UNIT, session |-> "OVERLAP"]

\* The trades of the journal: exits 40, 30 and 10 minutes before EntryTime, at
\* EntryTime and 10 minutes after it, won or lost; losses with no exit date
\* and with exit date 0.
HistoryTrades ==
    { HistoryTrade(EntryTime - m * MS_PER_MINUTE, p) :
        m \in {40, 30, 10, 0, -10}, p \in {-50 * UNIT, 50 * UNIT} }
    \cup { HistoryTrade(UNDEF, -50 * UNIT), HistoryTrade(0, -50 * UNIT) }
    \cup
    \* a loss entered at EntryTime whose recorded exit is ten minutes earlier
    { [HistoryTrade(EntryTime - 10 * MS_PER_MINUTE, -50 * UNIT)
         EXCEPT !.entryDate = EntryTime] }

\* The previewed trade: planned risks around the limits of the profiles (100
\* and 200) and around the fallback limit (2000); its id is the id of a trade
\* of the journal (1) or of none (9).
PreviewTrades ==
    { [id |-> i, status |-> "CLOSED", entryDate |-> EntryTime,
       exitDate |-> EntryTime + MS_PER_HOUR, netPnL |-> 50 * UNIT,
       riskAmount |-> r, session |-> "OVERLAP"]
        : i \in {1, 9},
          r \in {150 * UNIT, 200 * UNIT, 300 * UNIT, 2000 * UNIT, 2000 * UNIT + 1} }
    \cup
    \* entered ten minutes after the epoch: an exit date of 0 is inside the window
    { [id |-> 9, status |-> "CLOSED", entryDate |-> 10 * MS_PER_MINUTE,
       exitDate |-> MS_PER_HOUR, netPnL |-> 50 * UNIT,
       riskAmount |-> 150 * UNIT, session |-> "OVERLAP"] }

--------------------------------------------------------------------------
(* The server: protect and the trades controllers *)

MaxStored == 2

Users == {"u1", "u2"}

\* The ObjectId MongoDB generates for the n-th document.
ObjectId(n) == <<"ObjectId", n>>

\* A string that casts to an ObjectId.
IsObjectId(id) == Len(id) = 2 /\ id[1] = "ObjectId"

\* jwt.verify(token, secret): the id of the payload, or the error thrown.  A
\* token is [kind, id]: correctly signed and not expired ("valid"), correctly
\* signed and expired, or not signed with the secret ("forged").
JwtVerify(token) ==
    IF token.kind = "forged" THEN [error |-> "JsonWebTokenError"]
    ELSE IF token.kind = "expired" THEN [error |-> "TokenExpiredError"]
    ELSE [error |-> "", id |-> token.id]

\* UserFindById finding a document for every id.
UserFindByIdAlways(id) == <<id>>

\* User.findById(decoded.id): <<>> is null.
UserFindById(id) == IF id \in users THEN <<id>> ELSE <<>>

\* The Authorization header is <<>> (absent), <<scheme>> or <<scheme, token>>.
\* if (authorization && authorization.startsWith('Bearer'))
\*     token = authorization.split(' ')[1]
ExtractToken(authorization) ==
    IF authorization # <<>> /\ authorization[1] = "Bearer"
    THEN (IF Len(authorization) >= 2 THEN <<authorization[2]>> ELSE <<>>)
    ELSE <<>>

Unauthorized(error) == [next |-> FALSE, status |-> 401, error |-> error]

\* protect: next() with req.user set, or the 401 response it sends.
protect(authorization) ==
    LET token == ExtractToken(authorization)
    IN  IF token = <<>> THEN Unauthorized("Not authorized to access this route")
        ELSE LET decoded == JwtVerify(token[1])
             IN  IF decoded.error = "JsonWebTokenError" THEN Unauthorized("Invalid token")
                 ELSE IF decoded.error = "TokenExpiredError"
                 THEN Unauthorized("Token has expired")
                 ELSE IF UserFindById(decoded.id) = <<>>
                 THEN Unauthorized("User no longer exists")
                 ELSE [next |-> TRUE, user |-> decoded.id]

\* What a controller does: the collection and the id counter after it, and
\* the response it sends.
Outcome(newStore, newNextId, by, status, error) ==
    [store |-> newStore, nextId |-> newNextId,
     response |-> [by |-> by, status |-> status, error |-> error,
                   trades |-> {}, trade |-> <<>>]]

\* Trade.findById(id), the id being an ObjectId.
TradeFindById(id) == { t \in store : t.id = id }

\* A body is a record of some of the fields symbol, userId, id, _id and $set
\* (MongoDB's update operator, a record of fields itself).  The schema's
\* validation: a symbol that is given is not empty.
Validates(data) == "symbol" \in DOMAIN data => data.symbol # ""

\* tradeData = {...req.body, userId: req.user.id}; delete tradeData.id;
\* delete tradeData._id
TradeData(user, body) ==
    [f \in (DOMAIN body \ {"id", "_id"}) \cup {"userId"} |->
        IF f = "userId" THEN user ELSE body[f]]

\* updateData = {...req.body}; delete updateData.userId; delete updateData.id;
\* delete updateData._id
UpdateData(body) == [f \in DOMAIN body \ {"userId", "id", "_id"} |-> body[f]]

\* The document after findByIdAndUpdate(id, updateData): Mongoose sets the
\* top-level fields of updateData and applies the update operator $set if
\* updateData has one; the other fields stay.
ApplyUpdate(trade, updateData) ==
    LET set == IF "$set" \in DOMAIN updateData THEN updateData["$set"] ELSE <<>>
    IN  [f \in DOMAIN trade |->
            IF f \in DOMAIN updateData THEN updateData[f]
            ELSE IF f \in DOMAIN set THEN set[f]
            ELSE trade[f]]

\* TradeFind returning the trades of every user.
TradeFindAll(user) == store

\* Trade.find({ userId: req.user.id })
TradeFind(user) == { t \in store : t.userId = user }

\* IsOwner whoever asks.
IsOwnerAlways(trade, user) == TRUE

\* trade.userId.toString() === req.user.id
IsOwner(trade, user) == trade.userId = user

\* The order of the list (entryDate descending) is not modelled here.
getTrades(user) ==
    [Outcome(store, nextId, "getTrades", 200, "") EXCEPT
        !.response.trades = TradeFind(user)]

\* The paths of the schema that the model keeps; Mongoose drops the fields
\* of tradeData that are no paths of the schema.
SchemaPaths == {"userId", "symbol", "entryDate", "exitDate", "status", "netPnL"}

\* The document Trade.create(tradeData) stores, under the _id MongoDB
\* generates.
NewDocument(tradeData) ==
    [f \in (DOMAIN tradeData \cap SchemaPaths) \cup {"id"} |->
        IF f = "id" THEN ObjectId(nextId) ELSE tradeData[f]]

\* Trade.create(tradeData): symbol is required.  The response carries the
\* document.
createTrade(user, body) ==
    LET tradeData == TradeData(user, body)
    IN  IF ~("symbol" \in DOMAIN tradeData /\ Validates(tradeData))
        THEN Outcome(store, nextId, "createTrade", 400, "ValidationError")
        ELSE [Outcome(store \cup {NewDocument(tradeData)},
                      nextId + 1, "createTrade", 201, "")
                 EXCEPT !.response.trade = <<NewDocument(tradeData)>>]

updateTrade(user, id, body) ==
    IF ~IsObjectId(id)
    THEN Outcome(store, nextId, "updateTrade", 400, "Invalid trade ID format")
    ELSE IF TradeFindById(id) = {}
    THEN Outcome(store, nextId, "updateTrade", 404, "Trade not found")
    ELSE LET trade == CHOOSE t \in TradeFindById(id) : TRUE
         IN  IF ~IsOwner(trade, user)
             THEN Outcome(store, nextId, "updateTrade", 403,
                          "Not authorized to update this trade")
             ELSE IF ~Validates(UpdateData(body))
             THEN Outcome(store, nextId, "updateTrade", 400, "ValidationError")
             ELSE [Outcome((store \ {trade})
                               \cup {ApplyUpdate(trade, UpdateData(body))},
                           nextId, "updateTrade", 200, "")
                      EXCEPT !.response.trade =
                                 <<ApplyUpdate(trade, UpdateData(body))>>]

deleteTrade(user, id) ==
    IF ~IsObjectId(id)
    THEN Outcome(store, nextId, "deleteTrade", 400, "Invalid trade ID format")
    ELSE IF TradeFindById(id) = {}
    THEN Outcome(store, nextId, "deleteTrade", 404, "Trade not found")
    ELSE LET trade == CHOOSE t \in TradeFindById(id) : TRUE
         IN  IF ~IsOwner(trade, user)
             THEN Outcome(store, nextId, "deleteTrade", 403,
                          "Not authorized to delete this trade")
             ELSE Outcome(store \ {trade}, nextId, "deleteTrade", 200, "")

\* Trade.deleteMany({ userId: req.user.id })
deleteAllTrades(user) ==
    Outcome({ t \in store : t.userId # user }, nextId, "deleteAllTrades", 200, "")

\* GET /api/auth/me, a protected route: the current user.
getMe(user) == Outcome(store, nextId, "getMe", 200, "")

\* The controller the router binds to the operation.
Controller(op, user, id, body) ==
    CASE op = "getTrades" -> getTrades(user)
      [] op = "getMe" -> getMe(user)
      [] op = "createTrade" -> createTrade(user, body)
      [] op = "updateTrade" -> updateTrade(user, id, body)
      [] op = "deleteTrade" -> deleteTrade(user, id)
      [] op = "deleteAllTrades" -> deleteAllTrades(user)

\* The body of a request that sends none.
EmptyBody == <<>>

\* router.use(protect) and then the route's controller: what a request does
\* to the server.
Serve(op, authorization, id, body) ==
    LET auth == protect(authorization)
        outcome == Controller(op, auth.user, id, body)
    IN  /\ request' = <<[op |-> op, authorization |-> authorization, id |-> id]>>
        /\ IF auth.next
           THEN /\ store' = outcome.store
                /\ nextId' = outcome.nextId
                /\ response' = <<outcome.response>>
           ELSE /\ response' = <<[by |-> "protect", status |-> auth.status,
                                   error |-> auth.error,
                                   trades |-> {}, trade |-> <<>>]>>
                /\ UNCHANGED <<store, nextId>>
        /\ UNCHANGED users

\* A request of some client; the App of the model is not involved.
Handle(op, authorization, id, body) ==
    /\ Serve(op, authorization, id, body)
    /\ UNCHANGED <<clientVars, appVars>>

\* The tokens in circulation: a valid one of each user, an expired one and one
\* that was not signed by the server.
Tokens ==
    { [kind |-> "valid", id |-> u] : u \in Users }
    \cup { [kind |-> "expired", id |-> "u1"], [kind |-> "forged", id |-> "u1"] }

Authorizations ==
    { <<>>, <<"Bearer">>, <<"Basic", [kind |-> "valid", id |-> "u1"]>> }
    \cup { <<"Bearer", t>> : t \in Tokens }

\* The ids a request names: those of the documents that can exist, and a
\* string that is no ObjectId.
RequestIds == { ObjectId(n) : n \in 1..MaxStored } \cup { <<"abc">> }

\* Request bodies: a plain one, two that carry the userId of some user and the
\* id of a document, one that fails validation, and one that carries the
\* update operator $set.
Bodies ==
    { [symbol |-> "EURUSD"],
      [symbol |-> "XAUUSD", userId |-> "u2", id |-> ObjectId(1), _id |-> ObjectId(1)],
      [symbol |-> "EURUSD", userId |-> "u1", id |-> ObjectId(2), _id |-> ObjectId(2)],
      [symbol |-> ""],
      "$set" :> [userId |-> "u2"] }

\* router.get('/', getTrades)
RouteGetTrades ==
    \E a \in Authorizations :
        Handle("getTrades", a, <<>>, EmptyBody)

\* router.post('/', createTrade)
RouteCreateTrade ==
    /\ nextId <= MaxStored
    /\ \E a \in Authorizations, body \in Bodies :
         Handle("createTrade", a, <<>>, body)

\* router.put('/:id', updateTrade)
RouteUpdateTrade ==
    \E a \in Authorizations, id \in RequestIds, body \in Bodies :
        Handle("updateTrade", a, id, body)

\* router.delete('/:id', deleteTrade)
RouteDeleteTrade ==
    \E a \in Authorizations, id \in RequestIds :
        Handle("deleteTrade", a, id, EmptyBody)

\* router.delete('/', deleteAllTrades)
RouteDeleteAllTrades ==
    \E a \in Authorizations :
        Handle("deleteAllTrades", a, <<>>, EmptyBody)

\* The server with every user registered and no trade stored.
InitServer ==
    /\ users = Users
    /\ store = {}
    /\ nextId = 1
    /\ request = <<>>
    /\ response = <<>>

--------------------------------------------------------------------------
(* The App's handlers and the views *)

\* The App of user u1 after a session was established: the token is stored,
\* no submission and no import is under way.
InitSignedIn ==
    /\ authState = "authenticated"
    /\ qj_token = <<[kind |-> "valid", id |-> "u1"]>>
    /\ loadState = "ready"
    /\ submissions = <<>>
    /\ importing = <<>>
    /\ call = <<>>
    /\ alert = <<>>

NoViews ==
    /\ metrics' = <<>>
    /\ equityData' = <<>>
    /\ recentWinRate' = <<>>
    /\ analyticsMetrics' = <<>>
    /\ analyticsEquityData' = <<>>

NoPreview ==
    /\ tradeToPreview' = <<>>
    /\ previewProfile' = <<>>
    /\ violations' = <<>>

\* handleSaveTrade, a trade whose id is not in the list: [trade, ...prev].
\* The id is fresh: TRD-<Date.now()> or the one the server assigns.  The
\* useMemo cells of the views depend on trades and are computed anew by the
\* next render; the preview is closed while the entry form is open.
SaveNewTrade(pool, max) ==
    /\ Len(trades) < max
    /\ \E t \in pool :
         trades' = <<[t EXCEPT !.id = Len(trades) + 1]>> \o trades
    /\ NoViews
    /\ NoPreview
    /\ UNCHANGED <<userProfile, appVars, serverVars>>

\* handleDeleteAllTrades: setTrades([])
DeleteAllTrades ==
    /\ trades # <<>>
    /\ trades' = <<>>
    /\ NoViews
    /\ NoPreview
    /\ UNCHANGED <<userProfile, appVars, serverVars>>

\* handleSaveProfile: setUserProfile(profile)
SaveProfile(balances) ==
    /\ \E b \in balances :
         /\ b # userProfile.startBalance
         /\ userProfile' = [userProfile EXCEPT !.startBalance = b]
    /\ NoViews
    /\ NoPreview
    /\ UNCHANGED <<trades, appVars, serverVars>>

\* handleSaveProfile with a profile of the pool, whatever fields it changes.
SaveRiskProfile(profiles) ==
    /\ \E p \in profiles :
         /\ p # userProfile
         /\ userProfile' = p
    /\ NoViews
    /\ NoPreview
    /\ UNCHANGED <<trades, appVars, serverVars>>

\* The size of the window of the figure 'Win Rate (Last 20)'.
LAST_N == 20

\* arr.slice(-n): a new array of the last n elements of arr, or of all of
\* them if there are fewer.
SliceLast(arr, n) ==
    SubSeq(arr, (IF Len(arr) > n THEN Len(arr) - n + 1 ELSE 1), Len(arr))

\* calculateMetrics(trades.slice(-20), userProfile.startBalance).winRate
RecentWinRate(trs, startBalance) ==
    calculateMetrics(SliceLast(trs, LAST_N), startBalance).winRate

\* Dashboard renders: both useMemo cells and the figure 'Win Rate (Last 20)'
\* are computed from the current props.  Each of the two useMemo calls is
\* handed the trades array itself, the figure a slice of it.
RenderDashboard ==
    /\ \E now \in Clock :
         /\ metrics' = <<calculateMetrics(trades, userProfile.startBalance)>>
         /\ equityData' = <<generateEquityCurve(trades, userProfile.startBalance, now)>>
    /\ recentWinRate' = <<RecentWinRate(trades, userProfile.startBalance)>>
    /\ trades' = ArgumentAfterFilterSort(ArgumentAfterFilterSort(trades))
    /\ UNCHANGED <<userProfile, analyticsMetrics, analyticsEquityData,
                   tradeToPreview, previewProfile, violations, appVars, serverVars>>

\* Analytics renders.
RenderAnalytics ==
    /\ \E now \in Clock :
         /\ analyticsEquityData' =
                <<generateEquityCurve(trades, userProfile.startBalance, now)>>
         /\ analyticsMetrics' = <<calculateMetrics(trades, userProfile.startBalance)>>
    /\ trades' = ArgumentAfterFilterSort(ArgumentAfterFilterSort(trades))
    /\ UNCHANGED <<userProfile, metrics, equityData, recentWinRate,
                   tradeToPreview, previewProfile, violations, appVars, serverVars>>

InitMetrics ==
    /\ trades = <<>>
    /\ userProfile \in { [DEFAULT_PROFILE EXCEPT !.startBalance = b] : b \in Balances }
    /\ metrics = <<>>
    /\ equityData = <<>>
    /\ analyticsMetrics = <<>>
    /\ analyticsEquityData = <<>>
    /\ tradeToPreview = <<>>
    /\ previewProfile = <<>>
    /\ violations = <<>>
    /\ recentWinRate = <<>>
    /\ InitSignedIn
    /\ InitServer

NextMetrics ==
    \/ SaveNewTrade(MetricsTrades, MaxTrades)
    \/ DeleteAllTrades
    \/ SaveProfile(Balances)
    \/ RenderDashboard
    \/ RenderAnalytics

SpecMetrics == InitMetrics /\ [][NextMetrics]_vars

\* handlePreviewTrade and the render of TradePreviewModal: the modal shows
\* getTradeViolations(trade, allTrades, userProfile); userProfile is an
\* optional prop.  The trade is one of the journal or any other.
PreviewTrade(pool) ==
    /\ \E t \in pool \cup { trades[i] : i \in DOMAIN trades },
          p \in {<<>>, <<userProfile>>} :
         /\ tradeToPreview' = <<t>>
         /\ previewProfile' = p
         /\ violations' = <<getTradeViolations(t, trades, p)>>
    /\ trades' = ArgumentAfterFilterSort(trades)
    /\ UNCHANGED <<userProfile, metrics, equityData, analyticsMetrics,
                   analyticsEquityData, recentWinRate, appVars, serverVars>>

\* handleClosePreview
ClosePreview ==
    /\ tradeToPreview # <<>>
    /\ NoPreview
    /\ UNCHANGED <<trades, userProfile, metrics, equityData, analyticsMetrics,
                   analyticsEquityData, recentWinRate, appVars, serverVars>>

InitViolations ==
    /\ trades = <<>>
    /\ userProfile = [DEFAULT_PROFILE EXCEPT !.startBalance = 10000 * UNIT]
    /\ metrics = <<>>
    /\ equityData = <<>>
    /\ analyticsMetrics = <<>>
    /\ analyticsEquityData = <<>>
    /\ tradeToPreview = <<>>
    /\ previewProfile = <<>>
    /\ violations = <<>>
    /\ recentWinRate = <<>>
    /\ InitSignedIn
    /\ InitServer

NextViolations ==
    \/ SaveNewTrade(HistoryTrades, MaxPrevious)
    \/ DeleteAllTrades
    \/ SaveProfile(ViolationBalances)
    \/ PreviewTrade(PreviewTrades)
    \/ ClosePreview

SpecViolations == InitViolations /\ [][NextViolations]_vars

\* The hours around the edges of the three windows, at the first and the last
\* minute of the hour, on 2 January 1970.
SessionHours == {0, 6, 7, 8, 9, 11, 12, 16, 17, 21, 22, 23}

SessionTrades ==
    { [id |-> 9, status |-> "CLOSED",
       entryDate |-> MS_PER_DAY + h * MS_PER_HOUR + m * MS_PER_MINUTE,
       exitDate |-> 2 * MS_PER_DAY, netPnL |-> 50 * UNIT,
       riskAmount |-> 100 * UNIT, session |-> s]
        : s \in {"LONDON", "NY", "ASIA", "OVERLAP"}, h \in SessionHours, m \in {0, 59} }

\* The preview of trades of every session, the journal being empty.
NextSessions ==
    \/ SaveProfile(ViolationBalances)
    \/ PreviewTrade(SessionTrades)
    \/ ClosePreview

SpecSessions == InitViolations /\ [][NextSessions]_vars

\* Two closed trades with different exit dates and an open position.
JournalTrades ==
    { MetricsTrade("CLOSED", 2 * MS_PER_DAY + 1000, -500),
      MetricsTrade("CLOSED", 2 * MS_PER_DAY + 2000, 254),
      MetricsTrade("OPEN", UNDEF, 254) }

\* The three functions called on one journal: the two views and the preview
\* of a trade of the journal.
NextJournal ==
    \/ SaveNewTrade(JournalTrades, MaxTrades)
    \/ DeleteAllTrades
    \/ RenderDashboard
    \/ RenderAnalytics
    \/ PreviewTrade({})
    \/ ClosePreview

SpecJournal == InitViolations /\ [][NextJournal]_vars

\* The server alone; the documents of some users may have been deleted from
\* the User collection while their tokens are still in circulation.
InitApi ==
    /\ trades = <<>>
    /\ userProfile = DEFAULT_PROFILE
    /\ metrics = <<>>
    /\ equityData = <<>>
    /\ analyticsMetrics = <<>>
    /\ analyticsEquityData = <<>>
    /\ tradeToPreview = <<>>
    /\ previewProfile = <<>>
    /\ violations = <<>>
    /\ recentWinRate = <<>>
    /\ InitSignedIn
    /\ users \in SUBSET Users
    /\ store = {}
    /\ nextId = 1
    /\ request = <<>>
    /\ response = <<>>

NextApi ==
    \/ RouteGetTrades
    \/ RouteCreateTrade
    \/ RouteUpdateTrade
    \/ RouteDeleteTrade
    \/ RouteDeleteAllTrades

SpecApi == InitApi /\ [][NextApi]_vars

\* The trades of the worked example, +1000, -2000 and +500 on a balance of
\* 10000, each closed at any of three instants.
ExampleTrades ==
    { MetricsTrade("CLOSED", 2 * MS_PER_DAY + x, p * UNIT) :
        x \in {1000, 2000, 3000}, p \in {1000, -2000, 500} }

InitExample ==
    /\ trades = <<>>
    /\ userProfile = [DEFAULT_PROFILE EXCEPT !.startBalance = 10000 * UNIT]
    /\ metrics = <<>>
    /\ equityData = <<>>
    /\ analyticsMetrics = <<>>
    /\ analyticsEquityData = <<>>
    /\ tradeToPreview = <<>>
    /\ previewProfile = <<>>
    /\ violations = <<>>
    /\ recentWinRate = <<>>
    /\ InitSignedIn
    /\ InitServer

NextExample ==
    \/ SaveNewTrade(ExampleTrades, MaxTrades)
    \/ DeleteAllTrades
    \/ RenderDashboard

SpecExample == InitExample /\ [][NextExample]_vars

\* Profiles that differ in maxDailyLoss only: 1% and 5% of 10000.
RiskProfiles ==
    { [DEFAULT_PROFILE EXCEPT !.startBalance = 10000 * UNIT, !.maxDailyLoss = d]
        : d \in {1, 5} }

\* A loss and a win of 50 that closed ten minutes before EntryTime.
CheckHistory ==
    { HistoryTrade(EntryTime - 10 * MS_PER_MINUTE, p) : p \in {-50 * UNIT, 50 * UNIT} }

\* The previewed trade: planned risk 0, 100 and 300 (the limit of the profiles
\* is 200); results at and just beyond 1.5 times 100 and 300, a small loss and
\* a win; entered at 10:00 UTC, inside no Asia session.
CheckTrades ==
    { [id |-> 9, status |-> "CLOSED", entryDate |-> EntryTime,
       exitDate |-> EntryTime + MS_PER_HOUR, netPnL |-> p,
       riskAmount |-> r, session |-> s]
        : p \in {-450 * UNIT - 1, -450 * UNIT, -150 * UNIT - 1, -150 * UNIT,
                 -UNIT, 200 * UNIT},
          r \in {0, 100 * UNIT, 300 * UNIT},
          s \in {"OVERLAP", "ASIA"} }

NextChecks ==
    \/ SaveNewTrade(CheckHistory, MaxPrevious)
    \/ DeleteAllTrades
    \/ SaveRiskProfile(RiskProfiles)
    \/ PreviewTrade(CheckTrades)
    \/ ClosePreview

SpecChecks == InitViolations /\ [][NextChecks]_vars

--------------------------------------------------------------------------
(* The App talking to the server *)

MaxImport == 2

\* apiRequest's header: Authorization: Bearer <token> if a token is stored.
AuthorizationHeader ==
    IF qj_token = <<>> THEN <<>> ELSE <<"Bearer", qj_token[1]>>

\* A request sent with the header authorization: fetch reaches the server,
\* which answers, or fetch rejects and the server never sees the request.
Fetch(authorization, op, id, body, online) ==
    IF online
    THEN Serve(op, authorization, id, body)
    ELSE /\ request' = <<[op |-> op, authorization |-> authorization, id |-> id]>>
         /\ response' = <<[by |-> "fetch", status |-> 0, error |-> "Failed to fetch",
                           trades |-> {}, trade |-> <<>>]>>
         /\ UNCHANGED <<users, store, nextId>>

\* apiRequest, sent and answered in one step.
ApiRequest(op, id, body, online) ==
    Fetch(AuthorizationHeader, op, id, body, online)

\* apiRequest throws when fetch rejects and when !response.ok.
Throws(res) == res.status \notin 200..299

\* const { id, ...tradeData } = trade
WithoutId(trade) == [f \in DOMAIN trade \ {"id"} |-> trade[f]]

\* Trade.find(...).sort({ entryDate: -1 }): the documents as a list, latest
\* entryDate first; documents of the same entryDate come in an order of
\* MongoDB's choosing.
RECURSIVE SortByEntryDesc(_)
SortByEntryDesc(S) ==
    IF S = {} THEN <<>>
    ELSE LET t == CHOOSE x \in S : \A y \in S : y.entryDate <= x.entryDate
         IN  <<t>> \o SortByEntryDesc(S \ {t})

\* handleImportTrades up to its first await: api.deleteAllTrades().  If that
\* throws, the catch block puts the imported trades into the list and alerts.
ImportStart(pool) ==
    /\ authState = "authenticated"
    /\ importing = <<>>
    /\ nextId <= MaxStored + MaxImport + 1
    /\ \E newTrades \in pool, online \in BOOLEAN :
         /\ ApiRequest("deleteAllTrades", <<>>, EmptyBody, online)
         /\ call' = <<[handler |-> "handleImportTrades", newTrades |-> newTrades,
                       result |-> <<>>, failed |-> 0, storeBefore |-> store]>>
         /\ IF Throws(response'[1])
            THEN /\ trades' = newTrades
                 /\ alert' = <<[text |-> "Imported ${newTrades.length} trades (offline mode).",
                                count |-> Len(newTrades)]>>
                 /\ importing' = <<>>
                 /\ NoViews
                 /\ NoPreview
            ELSE /\ importing' = <<[next |-> 1, imported |-> 0]>>
                 /\ UNCHANGED <<trades, alert, metrics, equityData, recentWinRate,
                                analyticsMetrics, analyticsEquityData,
                                tradeToPreview, previewProfile, violations>>
    /\ UNCHANGED <<userProfile, authState, qj_token, loadState, submissions>>

\* ImportedAfter counting every trade of the file.
ImportedAfterAttempt(imported, res) == imported + 1

\* await this.createTrade(tradeData); imported++;  A throw skips the increment.
ImportedAfter(imported, res) == IF Throws(res) THEN imported ELSE imported + 1

\* api.importTrades, one turn of the loop: createTrade of the next trade; a
\* create that throws is logged and the loop goes on.
ImportCreate ==
    /\ importing # <<>>
    /\ importing[1].next <= Len(call[1].newTrades)
    /\ \E online \in BOOLEAN :
         ApiRequest("createTrade", <<>>,
                    WithoutId(call[1].newTrades[importing[1].next]), online)
    /\ importing' = <<[next |-> importing[1].next + 1,
                       imported |-> ImportedAfter(importing[1].imported,
                                                  response'[1])]>>
    /\ call' = <<[call[1] EXCEPT !.failed = @ + (IF Throws(response'[1]) THEN 1 ELSE 0)]>>
    /\ UNCHANGED <<clientVars, authState, qj_token, loadState, submissions, alert>>

\* api.importTrades returns { success: true, imported } and handleImportTrades
\* reloads the list with api.getTrades(); if that throws, the catch block
\* puts the imported trades into the list.
ImportReload ==
    /\ importing # <<>>
    /\ importing[1].next > Len(call[1].newTrades)
    /\ \E online \in BOOLEAN :
         ApiRequest("getTrades", <<>>, EmptyBody, online)
    /\ call' = <<[call[1] EXCEPT !.result = <<[success |-> TRUE,
                                               imported |-> importing[1].imported]>>]>>
    /\ IF Throws(response'[1])
       THEN /\ trades' = call[1].newTrades
            /\ alert' = <<[text |-> "Imported ${newTrades.length} trades (offline mode).",
                           count |-> Len(call[1].newTrades)]>>
       ELSE /\ trades' = SortByEntryDesc(response'[1].trades)
            /\ alert' = <<[text |-> "Successfully imported ${result.imported} trades.",
                           count |-> importing[1].imported]>>
    /\ importing' = <<>>
    /\ NoViews
    /\ NoPreview
    /\ UNCHANGED <<userProfile, authState, qj_token, loadState, submissions>>

\* A trade as the entry form and the import file give it, under an id of the
\* client's making.
AppTrade(k, symbol, entryDate, netPnL) ==
    [id |-> <<"TRD", k>>, symbol |-> symbol, status |-> "CLOSED",
     entryDate |-> entryDate, exitDate |-> entryDate + MS_PER_HOUR,
     netPnL |-> netPnL]

\* The document the server keeps of a trade created by user.
Document(n, user, trade) ==
    [f \in DOMAIN trade \cup {"userId"} |->
        IF f = "id" THEN ObjectId(n) ELSE IF f = "userId" THEN user ELSE trade[f]]

\* Import files: up to MaxImport trades, each one that the server accepts
\* or one that fails the schema's validation (no symbol).
ImportTrades ==
    { AppTrade(7, "EURUSD", 3 * MS_PER_DAY, 100 * UNIT),
      AppTrade(8, "", 4 * MS_PER_DAY, -50 * UNIT) }

ImportFiles ==
    UNION { [1..n -> ImportTrades] : n \in 0..MaxImport }

\* The documents stored before: one of u1 and one of u2.
PriorDocuments ==
    { Document(1, "u1", AppTrade(1, "XAUUSD", MS_PER_DAY, 10 * UNIT)),
      Document(2, "u2", AppTrade(2, "GBPUSD", 2 * MS_PER_DAY, -10 * UNIT)) }

\* The App of u1 showing the journal; the token stored is valid or has
\* expired since.
InitImport ==
    /\ store \in SUBSET PriorDocuments
    /\ nextId = 3
    /\ users = Users
    /\ request = <<>>
    /\ response = <<>>
    /\ trades = SortByEntryDesc(TradeFind("u1"))
    /\ userProfile = DEFAULT_PROFILE
    /\ metrics = <<>>
    /\ equityData = <<>>
    /\ analyticsMetrics = <<>>
    /\ analyticsEquityData = <<>>
    /\ tradeToPreview = <<>>
    /\ previewProfile = <<>>
    /\ violations = <<>>
    /\ recentWinRate = <<>>
    /\ authState = "authenticated"
    /\ qj_token \in { <<[kind |-> k, id |-> "u1"]>> : k \in {"valid", "expired"} }
    /\ loadState = "ready"
    /\ submissions = <<>>
    /\ importing = <<>>
    /\ call = <<>>
    /\ alert = <<>>

NextImport ==
    \/ ImportStart(ImportFiles)
    \/ ImportCreate
    \/ ImportReload

SpecImport == InitImport /\ [][NextImport]_vars

\* prev.map(t => t.id === id ? trade : t)
ReplaceById(arr, id, trade) ==
    [i \in DOMAIN arr |-> IF arr[i].id = id THEN trade ELSE arr[i]]

\* id: formData.id || `TRD-${Date.now()}`: the id of the trade being edited,
\* or a new one that no trade of the list has.
NewTradeId ==
    <<"TRD", 1 + Cardinality({ i \in DOMAIN trades : trades[i].id[1] = "TRD" })>>

\* The list after handleSaveTrade when the server call returned res.
SavedFromResponse(exists, tradeData, res) ==
    IF exists THEN ReplaceById(trades, tradeData.id, res.trade[1])
    ELSE <<res.trade[1]>> \o trades

\* The catch block of handleSaveTrade leaving the list alone.
SavedLocallyNot(exists, tradeData) == trades

\* The list after the catch block of handleSaveTrade.
SavedLocally(exists, tradeData) ==
    IF exists THEN ReplaceById(trades, tradeData.id, tradeData)
    ELSE <<tradeData>> \o trades

\* handleSaveTrade(tradeData): the entry form was submitted with the fields
\* of form, for a new trade or for one of the list (one of the first
\* editable entries).  updateTrade or createTrade is called, and the catch
\* block updates the list when the call throws.
SaveTrade(forms, editable, max) ==
    /\ authState = "authenticated"
    /\ importing = <<>>
    /\ \E form \in forms,
          id \in { trades[i].id : i \in DOMAIN trades \cap 1..editable }
                   \cup (IF Len(trades) < max THEN {NewTradeId} ELSE {}),
          online \in BOOLEAN :
         LET tradeData == [form EXCEPT !.id = id]
             exists == \E i \in DOMAIN trades : trades[i].id = tradeData.id
         IN  /\ IF exists
                THEN ApiRequest("updateTrade", tradeData.id, tradeData, online)
                ELSE ApiRequest("createTrade", <<>>, WithoutId(tradeData), online)
             /\ call' = <<[handler |-> "handleSaveTrade", tradeData |-> tradeData,
                           exists |-> exists, before |-> trades,
                           storeBefore |-> store]>>
             /\ trades' = IF Throws(response'[1])
                          THEN SavedLocally(exists, tradeData)
                          ELSE SavedFromResponse(exists, tradeData, response'[1])
    /\ NoViews
    /\ NoPreview
    /\ UNCHANGED <<userProfile, authState, qj_token, loadState, submissions,
                   importing, alert>>

\* A journal of n closed trades entered an hour apart; all are wins but
\* perhaps the oldest and the latest.
JournalDocuments(n, oldest, latest) ==
    { Document(i, "u1",
               AppTrade(i, "EURUSD", MS_PER_DAY + i * MS_PER_HOUR,
                        IF i = 1 THEN oldest ELSE IF i = n THEN latest ELSE 10 * UNIT))
        : i \in 1..n }

\* Forms of trades entered after every trade of the journals: a win and a
\* loss.
LaterForms ==
    { AppTrade(0, "XAUUSD", 3 * MS_PER_DAY, p) : p \in {-10 * UNIT, 10 * UNIT} }

\* The App of u1 after loadUserData, with a journal of about LAST_N trades.
InitDashboard ==
    /\ \E n \in {LAST_N - 1, LAST_N, LAST_N + 1}, oldest, latest \in {-10 * UNIT, 10 * UNIT} :
         /\ store = JournalDocuments(n, oldest, latest)
         /\ nextId = n + 1
    /\ users = Users
    /\ request = <<>>
    /\ response = <<>>
    /\ trades = SortByEntryDesc(TradeFind("u1"))
    /\ userProfile = [DEFAULT_PROFILE EXCEPT !.startBalance = 10000 * UNIT]
    /\ metrics = <<>>
    /\ equityData = <<>>
    /\ analyticsMetrics = <<>>
    /\ analyticsEquityData = <<>>
    /\ tradeToPreview = <<>>
    /\ previewProfile = <<>>
    /\ violations = <<>>
    /\ recentWinRate = <<>>
    /\ InitSignedIn

NextDashboard ==
    \/ SaveTrade(LaterForms, 0, LAST_N + MaxStored - 1)
    \/ RenderDashboard

SpecDashboard == InitDashboard /\ [][NextDashboard]_vars

\* What the entry form is submitted with: the fields of u1's stored trade
\* as they are, and the same with another result.
SaveForms ==
    { AppTrade(0, "XAUUSD", MS_PER_DAY, p) : p \in {10 * UNIT, -20 * UNIT} }

\* The App saves trades, new ones and entries of the list, and shows the
\* dashboard.
NextSave ==
    \/ SaveTrade(SaveForms, MaxStored, MaxStored)
    \/ RenderDashboard

SpecSave == InitImport /\ [][NextSave]_vars

--------------------------------------------------------------------------
(* Sessions: mount, AuthPage, login and logout *)

MaxSubmissions == 2

\* The tokens POST /api/auth/login and /api/auth/register answer with.
LoginTokens == { [kind |-> "valid", id |-> u] : u \in Users }

\* seq without its i-th element.
RemoveAt(seq, i) == SubSeq(seq, 1, i - 1) \o SubSeq(seq, i + 1, Len(seq))

\* The mount effect: getToken(); with a token loadUserData starts (the
\* loading screen is shown), without one setIsLoaded(true).
Mount ==
    /\ loadState = "mount"
    /\ loadState' = IF qj_token # <<>> THEN "restoring" ELSE "ready"
    /\ UNCHANGED <<clientVars, serverVars, authState, qj_token, submissions,
                   importing, call, alert>>

\* loadUserData after api.getMe() returned: if it threw, the catch block
\* removes the token; else api.getTrades() is awaited next.
RestoreProfile ==
    /\ loadState = "restoring"
    /\ \E online \in BOOLEAN : ApiRequest("getMe", <<>>, EmptyBody, online)
    /\ IF Throws(response'[1])
       THEN /\ qj_token' = <<>>
            /\ authState' = "landing"
            /\ loadState' = "ready"
       ELSE /\ loadState' = "restoringTrades"
            /\ UNCHANGED <<qj_token, authState>>
    /\ UNCHANGED <<clientVars, submissions, importing, call, alert>>

\* loadUserData after api.getTrades() returned.
RestoreTrades ==
    /\ loadState = "restoringTrades"
    /\ \E online \in BOOLEAN : ApiRequest("getTrades", <<>>, EmptyBody, online)
    /\ IF Throws(response'[1])
       THEN /\ qj_token' = <<>>
            /\ authState' = "landing"
            /\ UNCHANGED trades
       ELSE /\ trades' = SortByEntryDesc(response'[1].trades)
            /\ authState' = "authenticated"
            /\ UNCHANGED qj_token
    /\ loadState' = "ready"
    /\ NoViews
    /\ NoPreview
    /\ UNCHANGED <<userProfile, submissions, importing, call, alert>>

\* LandingPage: onLogin and onRegister.
OpenAuthPage ==
    /\ loadState = "ready"
    /\ authState = "landing"
    /\ authState' \in {"login", "register"}
    /\ UNCHANGED <<clientVars, serverVars, qj_token, loadState, submissions,
                   importing, call, alert>>

\* AuthPage: onBack.
BackToLanding ==
    /\ loadState = "ready"
    /\ authState \in {"login", "register"}
    /\ authState' = "landing"
    /\ UNCHANGED <<clientVars, serverVars, qj_token, loadState, submissions,
                   importing, call, alert>>

\* AuthPage.handleSubmit up to its await: api.login or api.register is
\* called.  The button of a page is disabled while its call is awaited; a
\* page opened anew has its own.
Submit ==
    /\ loadState = "ready"
    /\ authState \in {"login", "register"}
    /\ Len(submissions) < MaxSubmissions
    /\ submissions' = Append(submissions, [awaits |-> authState, authorization |-> <<>>])
    /\ UNCHANGED <<clientVars, serverVars, authState, qj_token, loadState,
                   importing, call, alert>>

\* The call of handleSubmit throws: setError.
SubmitRejected ==
    /\ \E i \in DOMAIN submissions :
         /\ submissions[i].awaits \in {"login", "register"}
         /\ submissions' = RemoveAt(submissions, i)
    /\ UNCHANGED <<clientVars, serverVars, authState, qj_token, loadState,
                   importing, call, alert>>

\* The call of handleSubmit returns: setToken(response.token), then
\* handleLoginSuccess up to its await, api.getTrades(), which is sent with the
\* token just stored.
SubmitAccepted ==
    /\ \E i \in DOMAIN submissions, t \in LoginTokens :
         /\ submissions[i].awaits \in {"login", "register"}
         /\ qj_token' = <<t>>
         /\ submissions' = [submissions EXCEPT
                                ![i] = [awaits |-> "getTrades",
                                        authorization |-> <<"Bearer", t>>]]
    /\ UNCHANGED <<clientVars, serverVars, authState, loadState,
                   importing, call, alert>>

\* handleLoginSuccess after api.getTrades() returned or threw: setTrades of
\* the list or of [], then setAuthState('authenticated').
LoginSuccess ==
    /\ \E i \in DOMAIN submissions, online \in BOOLEAN :
         /\ submissions[i].awaits = "getTrades"
         /\ Fetch(submissions[i].authorization, "getTrades", <<>>, EmptyBody, online)
         /\ submissions' = RemoveAt(submissions, i)
    /\ trades' = IF Throws(response'[1]) THEN <<>>
                 ELSE SortByEntryDesc(response'[1].trades)
    /\ authState' = "authenticated"
    /\ NoViews
    /\ NoPreview
    /\ UNCHANGED <<userProfile, qj_token, loadState, importing, call, alert>>

\* handleLogout
Logout ==
    /\ loadState = "ready"
    /\ authState = "authenticated"
    /\ qj_token' = <<>>
    /\ trades' = <<>>
    /\ userProfile' = DEFAULT_PROFILE
    /\ authState' = "landing"
    /\ NoViews
    /\ NoPreview
    /\ UNCHANGED <<serverVars, loadState, submissions, importing, call, alert>>

\* The page is loaded with whatever localStorage holds: no token, a valid
\* one or an expired one; the server stores trades of both users.
InitAuth ==
    /\ store = PriorDocuments
    /\ nextId = 3
    /\ users = Users
    /\ request = <<>>
    /\ response = <<>>
    /\ trades = <<>>
    /\ userProfile = DEFAULT_PROFILE
    /\ metrics = <<>>
    /\ equityData = <<>>
    /\ analyticsMetrics = <<>>
    /\ analyticsEquityData = <<>>
    /\ tradeToPreview = <<>>
    /\ previewProfile = <<>>
    /\ violations = <<>>
    /\ recentWinRate = <<>>
    /\ authState = "landing"
    /\ qj_token \in { <<>> } \cup { <<[kind |-> k, id |-> "u1"]>> : k \in {"valid", "expired"} }
    /\ loadState = "mount"
    /\ submissions = <<>>
    /\ importing = <<>>
    /\ call = <<>>
    /\ alert = <<>>

NextAuth ==
    \/ Mount
    \/ RestoreProfile
    \/ RestoreTrades
    \/ OpenAuthPage
    \/ BackToLanding
    \/ Submit
    \/ SubmitRejected
    \/ SubmitAccepted
    \/ LoginSuccess
    \/ Logout

SpecAuth == InitAuth /\ [][NextAuth]_vars

--------------------------------------------------------------------------
(* What the claims speak of *)

StartBalance == userProfile.startBalance

DashboardRendered == metrics # <<>> /\ equityData # <<>>

AnalyticsRendered == analyticsMetrics # <<>> /\ analyticsEquityData # <<>>

ClosedIdx == { i \in DOMAIN trades : trades[i].status = "CLOSED" }

ClosedWithExitIdx == { i \in ClosedIdx : trades[i].exitDate # UNDEF }

RECURSIVE SumPnL(_)
SumPnL(S) ==
    IF S = {} THEN 0
    ELSE LET i == CHOOSE j \in S : TRUE
         IN  trades[i].netPnL + SumPnL(S \ {i})

\* The whole cent nearest to x (a half goes away from zero).
NearestCent(x) ==
    CHOOSE c \in (x - 10)..(x + 10) :
        /\ c % 10 = 0
        /\ \/ Abs(x - c) < 5
           \/ Abs(x - c) = 5 /\ Abs(c) > Abs(x)

\* Every reordering of the sequence s.
Reorderings(s) ==
    { [i \in 1..Len(s) |-> s[f[i]]] :
        f \in { g \in [1..Len(s) -> 1..Len(s)] :
                  \A i, j \in 1..Len(s) : g[i] = g[j] => i = j } }

\* No two closed trades have the same exitDate (a missing one counts as 0).
DistinctExits ==
    \A i, j \in ClosedIdx : i # j => ExitOrZero(trades[i]) # ExitOrZero(trades[j])

OrderIndependent ==
    \A p \in Reorderings(trades) :
        /\ calculateMetrics(p, StartBalance) = metrics[1]
        /\ \E now \in Clock : generateEquityCurve(p, StartBalance, now) = equityData[1]

\* The largest drawdown among the points of a curve.
MaxPointDrawdown(curve) ==
    LET ds == { curve[i].drawdown : i \in DOMAIN curve }
    IN  CHOOSE d \in ds : \A e \in ds : ~FGt(e, d)

ZeroMetrics ==
    [totalTrades |-> 0, winRate |-> Num(0), profitFactor |-> Num(0),
     expectancy |-> Num(0), averageWin |-> Num(0), averageLoss |-> Num(0),
     maxDrawdown |-> 0, maxDrawdownPercent |-> Num(0), netProfit |-> 0,
     largestWin |-> 0, largestLoss |-> 0, currentStreak |-> 0]

--------------------------------------------------------------------------
(* C1 *)

\* C1 as stated: only CLOSED trades with a defined exitDate participate: the
\* curve has (number of CLOSED trades with an exitDate) + 1 points and
\* totalTrades is that number.
C1_OnlyClosedWithExitDate ==
    DashboardRendered =>
        /\ Len(equityData[1]) = Cardinality(ClosedWithExitIdx) + 1
        /\ metrics[1].totalTrades = Cardinality(ClosedWithExitIdx)

\* C1 amended: every CLOSED trade participates, with or without an exitDate:
\* the curve has (number of CLOSED trades) + 1 points and totalTrades is the
\* number of CLOSED trades.
C1_EveryClosedTrade ==
    DashboardRendered =>
        /\ Len(equityData[1]) = Cardinality(ClosedIdx) + 1
        /\ metrics[1].totalTrades = Cardinality(ClosedIdx)

C1_Witness ==
    /\ DashboardRendered
    /\ \E i \in ClosedIdx : trades[i].exitDate = UNDEF
    /\ \E i \in DOMAIN trades : trades[i].status = "OPEN"
    /\ ClosedWithExitIdx # {}

--------------------------------------------------------------------------
(* C2 *)

\* C2 as stated: the last point's equity minus the Start point's equity is
\* netProfit, the sum of netPnL over the closed trades.
C2_CurveSumsToNetProfit ==
    DashboardRendered =>
        /\ metrics[1].netProfit = SumPnL(ClosedIdx)
        /\ Last(equityData[1]).equity - equityData[1][1].equity = metrics[1].netProfit

\* C2 amended: netProfit is the sum of netPnL over the CLOSED trades, the Start
\* point's equity is the starting balance as given, and with at least one
\* CLOSED trade the last point's equity is startingBalance + netProfit rounded
\* to the nearest cent.
C2_LastEquityIsRoundedBalance ==
    DashboardRendered =>
        /\ metrics[1].netProfit = SumPnL(ClosedIdx)
        /\ equityData[1][1].equity = StartBalance
        /\ ClosedIdx # {} =>
               Last(equityData[1]).equity = NearestCent(StartBalance + metrics[1].netProfit)

C2_Witness ==
    /\ DashboardRendered
    /\ Cardinality(ClosedIdx) >= 2
    /\ Last(equityData[1]).equity - equityData[1][1].equity # metrics[1].netProfit

--------------------------------------------------------------------------
(* C3 *)

\* C3 as stated: every permutation of the trade list gives the same Metrics
\* and the same curve, also when closed trades share an exitDate.
C3_OrderIndependence == DashboardRendered => OrderIndependent

\* C3 amended: when no two CLOSED trades have the same exitDate (a missing
\* exitDate counting as 0), every permutation of the trade list gives the same
\* Metrics and the same curve.
C3_OrderIndependenceDistinctExits ==
    (DashboardRendered /\ DistinctExits) => OrderIndependent

C3_Witness ==
    /\ DashboardRendered
    /\ DistinctExits
    /\ Cardinality(ClosedIdx) = 3
    /\ ExitOrZero(trades[1]) > ExitOrZero(trades[2])
    /\ trades[1].netPnL # trades[2].netPnL

--------------------------------------------------------------------------
(* C4 *)

\* C4 as stated: two calls with the same arguments, at any two moments, give
\* identical output, also for a trade list with no closed trade.
C4_Deterministic ==
    (DashboardRendered /\ AnalyticsRendered) =>
        /\ analyticsMetrics = metrics
        /\ analyticsEquityData = equityData

\* C4 amended: calculateMetrics gives identical output for identical
\* arguments; so does generateEquityCurve when the list has a CLOSED trade;
\* with no CLOSED trade its output is the single Start point, identical
\* except for the timestamp, which is the time of the call.
C4_DeterministicButStartTime ==
    (DashboardRendered /\ AnalyticsRendered) =>
        /\ analyticsMetrics = metrics
        /\ ClosedIdx # {} => analyticsEquityData = equityData
        /\ ClosedIdx = {} =>
               /\ Len(equityData[1]) = 1
               /\ equityData[1][1].timestamp \in Clock
               /\ analyticsEquityData[1] =
                      <<[equityData[1][1] EXCEPT
                           !.timestamp = analyticsEquityData[1][1].timestamp]>>

C4_Witness ==
    /\ DashboardRendered
    /\ AnalyticsRendered
    /\ \E i \in DOMAIN trades : trades[i].status = "OPEN"
    /\ ClosedIdx = {}
    /\ analyticsEquityData[1][1].timestamp # equityData[1][1].timestamp

--------------------------------------------------------------------------
(* C5 *)

\* C5: maxDrawdownPercent of calculateMetrics is the maximum of the per-point
\* drawdown values of generateEquityCurve, for every balance (0 and negative
\* ones included).
C5_MaxDrawdownPercentIsCurveMax ==
    DashboardRendered =>
        metrics[1].maxDrawdownPercent = MaxPointDrawdown(equityData[1])

--------------------------------------------------------------------------
(* C6 *)

\* C6: no division by zero reaches the result: maxDrawdownPercent is a finite
\* number >= 0, for every balance (0 included).
C6_MaxDrawdownPercentFinite ==
    DashboardRendered =>
        /\ IsFinite(metrics[1].maxDrawdownPercent)
        /\ ~FGt(Num(0), metrics[1].maxDrawdownPercent)

--------------------------------------------------------------------------
(* C7 *)

\* C7: with no CLOSED trade in the list, every field of the Metrics is 0,
\* whatever the starting balance.
C7_NoClosedTradeAllZero ==
    (DashboardRendered /\ ClosedIdx = {}) => metrics[1] = ZeroMetrics

C7_Witness ==
    /\ DashboardRendered
    /\ ClosedIdx = {}
    /\ trades # <<>>
    /\ StartBalance # 0

--------------------------------------------------------------------------
(* C8 *)

GrossProfitOf(S) == SumPnL({ i \in S : trades[i].netPnL > 0 })

GrossLossOf(S) == -SumPnL({ i \in S : trades[i].netPnL <= 0 })

\* C8: profitFactor is grossProfit / grossLoss when grossLoss > 0, 999 when
\* grossLoss = 0 and grossProfit > 0, and 0 when both are 0.
C8_ProfitFactor ==
    DashboardRendered =>
        LET gp == GrossProfitOf(ClosedIdx)
            gl == GrossLossOf(ClosedIdx)
        IN  /\ gl > 0 => metrics[1].profitFactor = Frac(gp, gl)
            /\ (gl = 0 /\ gp > 0) => metrics[1].profitFactor = Num(999)
            /\ (gl = 0 /\ gp = 0) => metrics[1].profitFactor = Num(0)

C8_Witness ==
    /\ DashboardRendered
    /\ metrics[1].profitFactor = Num(999)
    /\ \E i \in ClosedIdx : trades[i].netPnL = 0

--------------------------------------------------------------------------
(* C9 *)

PreviewOpen == tradeToPreview # <<>> /\ violations # <<>>

HasMessage(text) == \E i \in DOMAIN violations[1] : violations[1][i][1] = text

OverRiskFlagged == HasMessage("Risk ($riskAmount) exceeds max limit ($MAX_RISK_AMOUNT)")

\* C9: the over-risking message is in the result iff riskAmount is strictly
\* greater than startBalance * maxRiskPerTrade / 100 when a profile is
\* supplied, and than 2000 when none is.
C9_OverRisking ==
    PreviewOpen =>
        LET risk == tradeToPreview[1].riskAmount
        IN  OverRiskFlagged <=>
                IF previewProfile # <<>>
                THEN risk * 100 >
                       previewProfile[1].startBalance * previewProfile[1].maxRiskPerTrade
                ELSE risk > 2000 * UNIT

\* startBalance 10000, maxRiskPerTrade 2, riskAmount exactly 200: not flagged.
C9_Witness ==
    /\ PreviewOpen
    /\ previewProfile # <<>>
    /\ previewProfile[1].startBalance = 10000 * UNIT
    /\ previewProfile[1].maxRiskPerTrade = 2
    /\ tradeToPreview[1].riskAmount = 200 * UNIT
    /\ ~OverRiskFlagged

--------------------------------------------------------------------------
(* C10 *)

RevengeFlagged == HasMessage("Potential revenge trading (entry <30m after loss)")

\* The other trades (different id) with a defined exitDate <= the entryDate of
\* the previewed trade.
Predecessors ==
    { i \in DOMAIN trades :
        /\ trades[i].id # tradeToPreview[1].id
        /\ trades[i].exitDate # UNDEF
        /\ trades[i].exitDate <= tradeToPreview[1].entryDate }

\* Those of a set of trades that have its latest exitDate.
Latest(S) == { i \in S : \A j \in S : trades[j].exitDate <= trades[i].exitDate }

\* A loss that closed strictly less than 30 minutes before the entry.
FreshLoss(i) ==
    /\ trades[i].netPnL < 0
    /\ tradeToPreview[1].entryDate - trades[i].exitDate < 30 * MS_PER_MINUTE

\* C10 as stated: the warning is in the result iff there is a predecessor and
\* the one with the latest exitDate is a loss closed less than 30 minutes
\* before the entry, whichever predecessor has the latest exitDate.
C10_RevengeTrading ==
    PreviewOpen =>
        /\ Predecessors = {} => ~RevengeFlagged
        /\ \A i \in Latest(Predecessors) : RevengeFlagged <=> FreshLoss(i)

\* C10 amended: the predecessors are the other trades with a defined, non-zero
\* exitDate <= entryDate; the warning is in the result iff there is one and,
\* of those with the latest exitDate, the first in allTrades order is a loss
\* closed less than 30 minutes before the entry.
C10_RevengeTradingFirstLatest ==
    PreviewOpen =>
        LET preds == { i \in Predecessors : trades[i].exitDate # 0 }
            first == CHOOSE i \in Latest(preds) : \A j \in Latest(preds) : i <= j
        IN  RevengeFlagged <=> (preds # {} /\ FreshLoss(first))

\* A loss inside the window is followed by a win before the entry: no warning.
C10_Witness ==
    /\ PreviewOpen
    /\ ~RevengeFlagged
    /\ \E i, j \in Predecessors :
         /\ FreshLoss(i)
         /\ trades[j].exitDate > trades[i].exitDate
         /\ trades[j].netPnL >= 0

--------------------------------------------------------------------------
(* C11 *)

\* The previewed trade is a record of the journal.
PreviewedFromJournal == \E i \in DOMAIN trades : trades[i] = tradeToPreview[1]

\* The journal with the previewed trade taken out.
JournalWithoutPreviewed == SelectSeq(trades, LAMBDA t : t # tradeToPreview[1])

\* C11: the trade is never its own predecessor, and the result is the same
\* whether allTrades contains the trade (at either end) or not.
C11_SelfExclusion ==
    PreviewOpen =>
        LET t == tradeToPreview[1]
            p == previewProfile
            prev == PreviousTrades(t, trades)
        IN  /\ \A i \in DOMAIN prev : prev[i].id # t.id
            /\ violations[1] = getTradeViolations(t, JournalWithoutPreviewed, p)
            /\ violations[1] = getTradeViolations(t, <<t>> \o JournalWithoutPreviewed, p)
            /\ violations[1] = getTradeViolations(t, JournalWithoutPreviewed \o <<t>>, p)

\* A losing trade of the journal whose exitDate is before its own entryDate,
\* inside the window, is previewed and gets no revenge warning.
C11_Witness ==
    /\ PreviewOpen
    /\ PreviewedFromJournal
    /\ tradeToPreview[1].netPnL < 0
    /\ HasExitDate(tradeToPreview[1])
    /\ tradeToPreview[1].exitDate <= tradeToPreview[1].entryDate
    /\ tradeToPreview[1].entryDate - tradeToPreview[1].exitDate < REVENGE_WINDOW_MS
    /\ ~RevengeFlagged

--------------------------------------------------------------------------
(* C12 *)

\* The hour of the day (UTC) that contains the instant ts.
HourOfDay(ts) ==
    CHOOSE h \in 0..23 :
        \E d \in 0..(ts \div MS_PER_DAY) :
            LET from == d * MS_PER_DAY + h * MS_PER_HOUR
            IN  from <= ts /\ ts < from + MS_PER_HOUR

SessionMessages ==
    { "Trade executed outside London session",
      "Trade executed outside NY session",
      "Trade executed outside Asia session" }

SessionMessageCount ==
    Cardinality({ i \in DOMAIN violations[1] : violations[1][i][1] \in SessionMessages })

\* C12: with h the UTC hour of entryDate, a LONDON trade is flagged iff h < 7
\* or h >= 17, a NY trade iff h < 12 or h >= 22, an ASIA trade iff
\* 9 <= h < 22, an OVERLAP trade never; at most one session message.
C12_SessionWindows ==
    PreviewOpen =>
        LET h == HourOfDay(tradeToPreview[1].entryDate)
            session == tradeToPreview[1].session
        IN  /\ HasMessage("Trade executed outside London session") <=>
                   (session = "LONDON" /\ (h < 7 \/ h >= 17))
            /\ HasMessage("Trade executed outside NY session") <=>
                   (session = "NY" /\ (h < 12 \/ h >= 22))
            /\ HasMessage("Trade executed outside Asia session") <=>
                   (session = "ASIA" /\ 9 <= h /\ h < 22)
            /\ SessionMessageCount <= 1

\* An ASIA trade entered at 23:59 is not flagged.
C12_Witness ==
    /\ PreviewOpen
    /\ tradeToPreview[1].session = "ASIA"
    /\ tradeToPreview[1].entryDate = MS_PER_DAY + 23 * MS_PER_HOUR + 59 * MS_PER_MINUTE
    /\ SessionMessageCount = 0

--------------------------------------------------------------------------
(* C13 *)

\* The CLOSED trade that comes first in ascending exitDate order (a missing
\* exitDate counting as 0; of equal ones the first of the list).
FirstClosed ==
    CHOOSE i \in ClosedIdx :
        \A j \in ClosedIdx :
            \/ ExitOrZero(trades[i]) < ExitOrZero(trades[j])
            \/ ExitOrZero(trades[i]) = ExitOrZero(trades[j]) /\ i <= j

NonDecreasingFrom(curve, k) ==
    \A i \in k..(Len(curve) - 1) : curve[i].timestamp <= curve[i + 1].timestamp

\* C13 as stated: timestamps are non-decreasing over all the points of the
\* curve, the Start point included, for every trade list.
C13_TimestampsNonDecreasing ==
    DashboardRendered => NonDecreasingFrom(equityData[1], 1)

\* C13 amended: timestamps are non-decreasing over the per-trade points; the
\* Start point's timestamp is the first sorted CLOSED trade's entryDate minus
\* one day, and it is not after the first per-trade point exactly when that
\* entryDate minus one day is <= that trade's exitDate (0 when missing).
C13_TradePointsNonDecreasing ==
    DashboardRendered =>
        /\ NonDecreasingFrom(equityData[1], 2)
        /\ ClosedIdx # {} =>
               LET first == trades[FirstClosed]
               IN  /\ equityData[1][1].timestamp = first.entryDate - MS_PER_DAY
                   /\ equityData[1][2].timestamp = ExitOrZero(first)
                   /\ NonDecreasingFrom(equityData[1], 1) <=>
                          first.entryDate - MS_PER_DAY <= ExitOrZero(first)

\* A CLOSED trade with no exitDate saved before two with exit dates: the Start
\* point is later than the first per-trade point, the others are in order.
C13_Witness ==
    /\ DashboardRendered
    /\ Cardinality(ClosedIdx) = 3
    /\ trades[3].exitDate = UNDEF
    /\ ExitOrZero(trades[1]) < ExitOrZero(trades[2])
    /\ equityData[1][1].timestamp > equityData[1][2].timestamp
    /\ equityData[1][3].timestamp < equityData[1][4].timestamp

--------------------------------------------------------------------------
(* C14 *)

\* A step in which calculateMetrics, generateEquityCurve or getTradeViolations
\* is called.
EngineCalled == RenderDashboard \/ RenderAnalytics \/ PreviewTrade({})

--------------------------------------------------------------------------
(* C15 *)

\* The Authorization header is "Bearer <token>", the token is correctly
\* signed and not expired, and the user it names still exists.
ValidBearer(authorization) ==
    /\ Len(authorization) = 2
    /\ authorization[1] = "Bearer"
    /\ authorization[2].kind = "valid"
    /\ authorization[2].id \in users

\* C15: whatever the operation, a controller answers only a request that
\* carries a valid Bearer token of an existing user; any other request gets
\* 401 from protect and the trade store is unchanged.
C15_ProtectedRoutes ==
    [][/\ response'[1].by # "protect" => ValidBearer(request'[1].authorization)
       /\ ~ValidBearer(request'[1].authorization) =>
              /\ response'[1].by = "protect"
              /\ response'[1].status = 401
              /\ store' = store]_vars

\* The valid token of a user whose document is gone asks to delete all
\* trades while trades are stored: 401.
C15_Witness ==
    /\ request # <<>>
    /\ request[1].op = "deleteAllTrades"
    /\ Len(request[1].authorization) = 2
    /\ request[1].authorization[2].kind = "valid"
    /\ request[1].authorization[2].id \notin users
    /\ response[1].status = 401
    /\ store # {}

--------------------------------------------------------------------------
(* C16 *)

\* An update or a delete that passed protect.
UpdateOrDeleteHandled ==
    /\ request'[1].op \in {"updateTrade", "deleteTrade"}
    /\ ValidBearer(request'[1].authorization)

Refused(status) == response'[1].status = status /\ store' = store /\ nextId' = nextId

\* The stored trades that have the id of the request.
Named == { t \in store : t.id = request'[1].id }

OwnedByAnother ==
    \E t \in Named : t.userId # request'[1].authorization[2].id

\* C16 as stated: an update or delete of an id that names no stored trade is
\* answered 404, of a trade owned by a different user 403, and the store is
\* unchanged in both cases.
C16_NotFoundForbidden ==
    [][UpdateOrDeleteHandled =>
           /\ Named = {} => Refused(404)
           /\ OwnedByAnother => Refused(403)]_vars

\* C16 amended: an id that names no stored trade is answered 404 when it is a
\* well-formed ObjectId and 400 when it is not; a trade owned by a different
\* user is answered 403; the store is unchanged in all three cases.
C16_NotFoundForbiddenBadId ==
    [][UpdateOrDeleteHandled =>
           /\ (Named = {} /\ IsObjectId(request'[1].id)) => Refused(404)
           /\ (Named = {} /\ ~IsObjectId(request'[1].id)) => Refused(400)
           /\ OwnedByAnother => Refused(403)]_vars

\* A user asks to delete a trade that another user owns: 403, the trade stays.
C16_Witness ==
    /\ request # <<>>
    /\ request[1].op = "deleteTrade"
    /\ response[1].status = 403
    /\ \E t \in store :
         /\ t.id = request[1].id
         /\ t.userId # request[1].authorization[2].id

--------------------------------------------------------------------------
(* C17 *)

\* The place of the CLOSED trade i in ascending exitDate order (a missing
\* exitDate counting as 0; equal ones in the order of the list).
RankOf(i) ==
    Cardinality({ j \in ClosedIdx :
        \/ ExitOrZero(trades[j]) < ExitOrZero(trades[i])
        \/ ExitOrZero(trades[j]) = ExitOrZero(trades[i]) /\ j <= i })

\* The equity after the first k closed trades in that order.
EquityAfter(k) == StartBalance + SumPnL({ i \in ClosedIdx : RankOf(i) <= k })

\* The highest equity reached up to the k-th trade, the balance included.
PeakAfter(k) ==
    CHOOSE e \in { EquityAfter(j) : j \in 0..k } :
        \A j \in 0..k : EquityAfter(j) <= e

\* The largest of (peak so far - equity) over all the prefixes.
MaxPrefixDrawdown ==
    LET dds == { PeakAfter(k) - EquityAfter(k) : k \in 0..Cardinality(ClosedIdx) }
    IN  CHOOSE d \in dds : \A e \in dds : e <= d

\* The netPnL of the closed trades in ascending exitDate order.
PnLInExitOrder ==
    [k \in 1..Cardinality(ClosedIdx) |->
        trades[CHOOSE i \in ClosedIdx : RankOf(i) = k].netPnL]

IsExample ==
    /\ StartBalance = 10000 * UNIT
    /\ \A i \in DOMAIN trades : trades[i].status = "CLOSED"
    /\ PnLInExitOrder = <<1000 * UNIT, -2000 * UNIT, 500 * UNIT>>

\* C17: maxDrawdown is the maximum over the prefixes of the closed trades in
\* exitDate order of (highest equity so far - equity after the prefix); for
\* netPnL [+1000, -2000, +500] on 10000 the equity sequence is
\* [10000, 11000, 9000, 9500], maxDrawdown 2000 and netProfit -500.
C17_MaxDrawdownOverPrefixes ==
    DashboardRendered =>
        /\ metrics[1].maxDrawdown = MaxPrefixDrawdown
        /\ IsExample =>
               /\ [i \in 1..4 |-> equityData[1][i].equity] =
                      <<10000 * UNIT, 11000 * UNIT, 9000 * UNIT, 9500 * UNIT>>
               /\ metrics[1].maxDrawdown = 2000 * UNIT
               /\ metrics[1].netProfit = -500 * UNIT

\* The example, saved in another order than it was closed: the drawdown at
\* the last trade (1500) is not the maximum (2000).
C17_Witness ==
    /\ DashboardRendered
    /\ IsExample
    /\ trades[1].netPnL = -2000 * UNIT
    /\ PeakAfter(3) - EquityAfter(3) = 1500 * UNIT
    /\ metrics[1].maxDrawdown = 2000 * UNIT

--------------------------------------------------------------------------
(* C18 *)

NumClosed == Cardinality(ClosedIdx)

\* The netPnL of the k-th closed trade in ascending exitDate order is > 0.
WonAt(k) == trades[CHOOSE i \in ClosedIdx : RankOf(i) = k].netPnL > 0

\* The length of the maximal run of same-outcome trades that ends at the last
\* closed trade.
FinalRun ==
    CHOOSE len \in 1..NumClosed :
        /\ \A k \in (NumClosed - len + 1)..NumClosed : WonAt(k) = WonAt(NumClosed)
        /\ len = NumClosed \/ WonAt(NumClosed - len) # WonAt(NumClosed)

\* C18: currentStreak is 0 iff no trade is closed; otherwise it is positive
\* after a win and negative after a loss of the last closed trade in exitDate
\* order, and its absolute value is the length of the run of same-outcome
\* trades ending there.
C18_CurrentStreak ==
    DashboardRendered =>
        /\ metrics[1].currentStreak = 0 <=> NumClosed = 0
        /\ NumClosed > 0 =>
               /\ metrics[1].currentStreak > 0 <=> WonAt(NumClosed)
               /\ Abs(metrics[1].currentStreak) = FinalRun

\* A loss and then two wins: the streak is 2.
C18_Witness ==
    /\ DashboardRendered
    /\ NumClosed = 3
    /\ ~WonAt(1)
    /\ metrics[1].currentStreak = 2

--------------------------------------------------------------------------
(* C19 *)

WinIdx == { i \in ClosedIdx : trades[i].netPnL > 0 }

LossIdx == { i \in ClosedIdx : trades[i].netPnL <= 0 }

\* The last closed trade in exitDate order broke even.
LastBrokeEven ==
    /\ NumClosed > 0
    /\ trades[CHOOSE i \in ClosedIdx : RankOf(i) = NumClosed].netPnL = 0

\* C19: a closed trade is a win iff netPnL > 0 and a loss otherwise, a trade
\* with netPnL = 0 included: wins and losses add up to totalTrades, winRate
\* is wins / totalTrades * 100 and lies in [0, 100], the trades with
\* netPnL = 0 are in the denominator of averageLoss, and one that follows a
\* win makes currentStreak -1.
C19_ZeroIsLoss ==
    DashboardRendered =>
        LET wins == Cardinality(WinIdx)
            losses == Cardinality(LossIdx)
            m == metrics[1]
        IN  /\ wins + losses = m.totalTrades
            /\ m.totalTrades > 0 => m.winRate = Frac(wins * 100, m.totalTrades)
            /\ ~FGt(Num(0), m.winRate) /\ ~FGt(m.winRate, Num(100)) /\ ~IsNaN(m.winRate)
            /\ losses > 0 => m.averageLoss = Frac(-SumPnL(LossIdx), losses)
            /\ wins > 0 => m.averageWin = Frac(SumPnL(WinIdx), wins)
            /\ LastBrokeEven => m.currentStreak < 0
            /\ (LastBrokeEven /\ NumClosed > 1 /\ WonAt(NumClosed - 1)) =>
                   m.currentStreak = -1

\* A win, a loss of 0.5 and, last, a trade that broke even: averageLoss is
\* 0.25 and the streak is -2.
C19_Witness ==
    /\ DashboardRendered
    /\ NumClosed = 3
    /\ LastBrokeEven
    /\ WonAt(1)
    /\ metrics[1].averageLoss = Frac(500, 2)
    /\ metrics[1].currentStreak = -2

--------------------------------------------------------------------------
(* C20 *)

\* C20: with totalTrades > 0, expectancy is netProfit / totalTrades, the
\* average netPnL of a closed trade, and grossProfit - grossLoss is
\* netProfit; with totalTrades = 0 expectancy is 0.
C20_ExpectancyIsAveragePnL ==
    DashboardRendered =>
        LET m == metrics[1]
        IN  /\ m.totalTrades > 0 =>
                   /\ m.expectancy = Frac(m.netProfit, m.totalTrades)
                   /\ m.expectancy = Frac(SumPnL(ClosedIdx), NumClosed)
                   /\ GrossProfitOf(ClosedIdx) - GrossLossOf(ClosedIdx) = m.netProfit
            /\ m.totalTrades = 0 => m.expectancy = Num(0)

\* Two wins of 0.254 and a loss of 0.5: expectancy is 0.008 / 3.
C20_Witness ==
    /\ DashboardRendered
    /\ Cardinality(WinIdx) = 2
    /\ Cardinality(LossIdx) = 1
    /\ metrics[1].netProfit = 8
    /\ metrics[1].expectancy = Frac(8, 3)

--------------------------------------------------------------------------
(* C21 *)

\* The largest of a non-empty set of integers.
MaxOf(S) == CHOOSE x \in S : \A y \in S : y <= x

\* The smallest of a non-empty set of integers.
MinOf(S) == CHOOSE x \in S : \A y \in S : x <= y

ClosedPnLs == { trades[i].netPnL : i \in ClosedIdx }

\* C21: largestWin is >= 0 and is the largest positive netPnL (0 if none),
\* largestLoss is <= 0 and is the most negative netPnL (0 if none is
\* negative), averageLoss >= 0 and maxDrawdown >= 0.
C21_SignConventions ==
    DashboardRendered =>
        LET m == metrics[1]
            positive == { x \in ClosedPnLs : x > 0 }
            negative == { x \in ClosedPnLs : x < 0 }
        IN  /\ m.largestWin >= 0
            /\ m.largestWin = IF positive = {} THEN 0 ELSE MaxOf(positive)
            /\ m.largestLoss <= 0
            /\ m.largestLoss = IF negative = {} THEN 0 ELSE MinOf(negative)
            /\ IsFinite(m.averageLoss) /\ ~FGt(Num(0), m.averageLoss)
            /\ m.maxDrawdown >= 0

\* A win, a loss and a break-even trade on a negative balance.
C21_Witness ==
    /\ DashboardRendered
    /\ StartBalance < 0
    /\ ClosedPnLs = {-500, 0, 254}
    /\ metrics[1].largestLoss = -500
    /\ metrics[1].largestWin = 254

--------------------------------------------------------------------------
(* C22 *)

ExcessLossFlagged ==
    HasMessage("Loss exceeded planned risk significantly (Slippage/Discipline)")

\* C22: the excess-loss message is in the result iff netPnL < 0,
\* riskAmount > 0 and |netPnL| is strictly greater than 1.5 * riskAmount.
C22_ExcessLoss ==
    PreviewOpen =>
        LET t == tradeToPreview[1]
        IN  ExcessLossFlagged <=>
                /\ t.netPnL < 0
                /\ t.riskAmount > 0
                /\ 10 * (-t.netPnL) > 15 * t.riskAmount

\* A loss of exactly 1.5 times the planned risk is not flagged.
C22_Witness ==
    /\ PreviewOpen
    /\ tradeToPreview[1].riskAmount = 100 * UNIT
    /\ tradeToPreview[1].netPnL = -150 * UNIT
    /\ ~ExcessLossFlagged
--------------------------------------------------------------------------
(* C23 *)

\* The texts of the messages, in the order of the checks.
MessageTexts ==
    << "Risk ($riskAmount) exceeds max limit ($MAX_RISK_AMOUNT)",
       "Loss exceeded planned risk significantly (Slippage/Discipline)",
       "session",
       "Potential revenge trading (entry <30m after loss)" >>

\* The kind (1..4) of a message of the result.
KindOf(message) ==
    IF message[1] \in SessionMessages THEN 3
    ELSE CHOOSE k \in {1, 2, 4} : MessageTexts[k] = message[1]

\* The conditions of the four checks, each stated on its own.
OverRiskCondition ==
    IF previewProfile # <<>>
    THEN tradeToPreview[1].riskAmount * 100 >
           previewProfile[1].startBalance * previewProfile[1].maxRiskPerTrade
    ELSE tradeToPreview[1].riskAmount > 2000 * UNIT

ExcessLossCondition ==
    /\ tradeToPreview[1].netPnL < 0
    /\ tradeToPreview[1].riskAmount > 0
    /\ 10 * (-tradeToPreview[1].netPnL) > 15 * tradeToPreview[1].riskAmount

SessionCondition ==
    LET h == HourOfDay(tradeToPreview[1].entryDate)
        session == tradeToPreview[1].session
    IN  \/ session = "LONDON" /\ (h < 7 \/ h >= 17)
        \/ session = "NY" /\ (h < 12 \/ h >= 22)
        \/ session = "ASIA" /\ 9 <= h /\ h < 22

RevengeCondition ==
    LET preds == { i \in Predecessors : trades[i].exitDate # 0 }
        first == CHOOSE i \in Latest(preds) : \A j \in Latest(preds) : i <= j
    IN  preds # {} /\ FreshLoss(first)

\* The kinds whose condition holds, in ascending order.
ExpectedKinds ==
    SelectSeq(<<1, 2, 3, 4>>,
              LAMBDA k : \/ k = 1 /\ OverRiskCondition
                         \/ k = 2 /\ ExcessLossCondition
                         \/ k = 3 /\ SessionCondition
                         \/ k = 4 /\ RevengeCondition)

\* C23: the result holds each kind of message at most once, in the order
\* over-risking, excess-loss, session, revenge, and it is exactly the
\* sub-sequence of the kinds whose own condition holds, whatever the other
\* conditions are.
C23_FixedOrderIndependentChecks ==
    PreviewOpen =>
        /\ Len(violations[1]) <= 4
        /\ [i \in 1..Len(violations[1]) |-> KindOf(violations[1][i])] = ExpectedKinds

\* All four checks fire on one trade.
C23_Witness ==
    /\ PreviewOpen
    /\ Len(violations[1]) = 4
    /\ OverRiskCondition /\ ExcessLossCondition /\ SessionCondition /\ RevengeCondition
--------------------------------------------------------------------------
(* C24 *)

DailyLossLimits == { p.maxDailyLoss : p \in RiskProfiles }

\* The losses of the journal and of the previewed trade, all of one day.
DayLoss ==
    (-SumPnL({ i \in DOMAIN trades : trades[i].netPnL < 0 }))
        + (IF tradeToPreview[1].netPnL < 0 THEN -tradeToPreview[1].netPnL ELSE 0)

--------------------------------------------------------------------------
(* C25 *)

\* The user a request that passed protect is authenticated as.
Caller == request'[1].authorization[2].id

StoredIds == { t.id : t \in store }

\* The trade t of the store after the step was in the store before it, under
\* the same id and with the same owner.
Kept(t) == \E u \in store : u.id = t.id /\ u.userId = t.userId

\* The trade t of the store after the step was created by the step: the
\* request is an authenticated createTrade, the owner is its caller and the
\* id is one no document has had.
Created(t) ==
    /\ request'[1].op = "createTrade"
    /\ ValidBearer(request'[1].authorization)
    /\ t.userId = Caller
    /\ t.id = ObjectId(nextId)
    /\ \A u \in store : u.id[2] < nextId

\* C25: every step leaves each stored trade its id and its userId, and a
\* trade that enters the store gets a fresh id and the userId of the
\* authenticated user that created it, whatever the request body carries;
\* no two stored trades have the same id.
C25_OwnershipFixed ==
    [][/\ \A t \in store' : Kept(t) \/ Created(t)
       /\ \A t, u \in store' : t.id = u.id => t = u]_vars

--------------------------------------------------------------------------
(* C26 *)

\* C26: getTrades returns exactly the stored trades whose userId is the
\* caller and changes nothing; deleteAllTrades removes exactly those and
\* leaves every other trade as it was.
C26_PerUserIsolation ==
    [][ValidBearer(request'[1].authorization) =>
           /\ request'[1].op = "getTrades" =>
                  /\ response'[1].trades = { t \in store : t.userId = Caller }
                  /\ store' = store
           /\ request'[1].op = "deleteAllTrades" =>
                  store' = { t \in store : t.userId # Caller }]_vars

\* A user lists the trades while another user has trades too: only the
\* caller's are returned.
C26_Witness ==
    /\ request # <<>>
    /\ request[1].op = "getTrades"
    /\ response[1].status = 200
    /\ response[1].trades # {}
    /\ store \ response[1].trades # {}

--------------------------------------------------------------------------
(* C27 *)

\* The user of the App's token.
AppUser == "u1"

ImportCall == call # <<>> /\ call[1].handler = "handleImportTrades"

\* handleImportTrades has returned after api.importTrades returned.
ImportDone == ImportCall /\ importing = <<>> /\ call[1].result # <<>>

--------------------------------------------------------------------------
(* C28 *)

\* The list holds the trades latest entry first, as GET /trades returns them
\* and as prepending later trades keeps them.
LatestFirst ==
    \A i, j \in DOMAIN trades : i < j => trades[i].entryDate >= trades[j].entryDate

\* The n most recent trades of a list that holds the latest first.
MostRecent(arr, n) == SubSeq(arr, 1, (IF Len(arr) > n THEN n ELSE Len(arr)))

\* C28: the figure 'Win Rate (Last 20)' that the dashboard shows is the win
\* rate over the 20 most recent trades of the list.
C28_WinRateOfMostRecent ==
    (recentWinRate # <<>> /\ LatestFirst) =>
        recentWinRate[1]
            = calculateMetrics(MostRecent(trades, LAST_N), userProfile.startBalance).winRate

--------------------------------------------------------------------------
(* C29 *)

SaveCall ==
    /\ call # <<>>
    /\ call[1].handler = "handleSaveTrade"
    /\ request[1].op \in {"createTrade", "updateTrade"}

SaveFailed == SaveCall /\ Throws(response[1])

SaveSucceeded == SaveCall /\ ~Throws(response[1])

InList(trade) == \E i \in DOMAIN trades : trades[i] = trade

\* The document holds the trade: it has the id and every field of it.
Holds(doc, trade) == \A f \in DOMAIN trade : f \in DOMAIN doc /\ doc[f] = trade[f]

\* The submitted trade is in the list, put in front of it or in the place of
\* the entry of the same id.
SubmittedInList ==
    /\ InList(call[1].tradeData)
    /\ trades = IF call[1].exists
                THEN ReplaceById(call[1].before, call[1].tradeData.id, call[1].tradeData)
                ELSE <<call[1].tradeData>> \o call[1].before

\* The list holds the trade the server returned, under the id the server
\* assigned, and the server stores that trade.
ReturnedInList ==
    /\ InList(response[1].trade[1])
    /\ IsObjectId(response[1].trade[1].id)
    /\ response[1].trade[1] \in store
    /\ trades = IF call[1].exists
                THEN ReplaceById(call[1].before, call[1].tradeData.id, response[1].trade[1])
                ELSE <<response[1].trade[1]>> \o call[1].before

--------------------------------------------------------------------------
(* C30 *)

\* C30: whenever the App is in the state 'authenticated', a token is stored
\* under 'qj_token'.
C30_AuthenticatedHasToken ==
    authState = "authenticated" => qj_token # <<>>

\* The other part of C30, which holds: a step that leaves 'authenticated'
\* for 'landing' (logout) removes the token and empties the trade list, and
\* a session restore that fails removes the token and leaves 'landing'.
C30_LogoutAndFailedRestore ==
    [][/\ (authState = "authenticated" /\ authState' = "landing") =>
              qj_token' = <<>> /\ trades' = <<>>
       /\ (loadState \in {"restoring", "restoringTrades"} /\ loadState' = "ready"
              /\ Throws(response'[1])) =>
              qj_token' = <<>> /\ authState' = "landing"]_vars

====
